---- MODULE Spec2Model ----
(***************************************************************************)
(* The resumable downloader of osmfile (Download, download, dlfut) and the *)
(* tailing reader (dlReader) that follows the file while it is written.    *)
(* One producer goroutine, consumers calling Reader() and then Read(),     *)
(* callers of Error(), callers of Status(), and up to MaxStops calls of    *)
(* Stop().  Every critical section of the code holds dl.cond.L from Lock   *)
(* to Unlock or to cond.Wait, so each is one action.                       *)
(*                                                                         *)
(* The readers of the file format follow: package pbf (the wire format),   *)
(* rawBlockReader and BlockReader over a stream of blobs, inflate, and     *)
(* procBlock with the decoders of dense nodes, ways and relations.  They   *)
(* are functions of their input: FrameSpec and BlockSpec call the readers  *)
(* on streams written from lists of blobs and cut at any length, BlobSpec  *)
(* applies inflate and DecodeSpec applies procBlock to bytes written from  *)
(* lists of primitive groups.                                              *)
(***************************************************************************)
EXTENDS Integers, Sequences, FiniteSets, TLC

\* ---- bounds ----
MaxSize == 2        \* largest Content-Length the server announces
MaxChunk == 2       \* largest number of bytes one Read call delivers
NumReaders == 2     \* consumers calling Reader() and then Read()
NumErrCallers == 1  \* callers of Error()
NumObservers == 1   \* callers of Status()
MaxStops == 2       \* calls of Stop()

Readers == 1..NumReaders
ErrCallers == 1..NumErrCallers
Observers == 1..NumObservers

\* the path argument of Download
Path == "planet.osm.pbf"

\* byte i (0-based) of the server's content; one byte past the declared
\* size exists for a server that sends too much
Content(i) == i + 1
\* a byte of the body of an error page
Garbage == 0

Min(a, b) == IF a < b THEN a ELSE b

VARIABLES
  done, path, err, downloaded, size,   \* dlfut
  file,        \* bytes of the file at Path
  srvSize,     \* Content-Length of the HEAD response
  initLen,     \* length of the file at Path when Download is called
  ppc,         \* position of the download goroutine
  start, written, \* locals of download
  body,        \* bytes of the GET response body not yet read
  pn, perr,    \* n, err of the last res.Body.Read
  dlret,       \* value returned by download
  rangeReq,    \* Range header of the GET request, <<first, last>>
  respStatus,  \* status code of the GET response
  pc,          \* position of each consumer
  kind,        \* what Reader() returned: "none", "err", "file", "tail"
  rderr,       \* dlErrReader.err
  read,        \* dlReader.read, also the offset of the reader's handle
  fn, ferr,    \* n, err of the last rd.f.Read
  ret,         \* last return of Read: [n, err]
  epc, eret,   \* Error() callers: position and returned value
  status,      \* last DownloadStatus each observer got
  stops,       \* number of Stop() calls made
  blobs,       \* the blobs the stream was written from
  stream,      \* bytes of the io.Reader a BlockReader is made on
  rr,          \* rawBlockReader: err, pos, and the offset in the stream
  calls,       \* what the calls made on the reader returned, in order
  bdata,       \* argument of inflate
  inflated,    \* what inflate returned: [data, err]
  groups,      \* the primitive groups pdata was written from
  whatArg, pdata, \* arguments of procBlock: what, data
  decoded      \* what procBlock returned: [block, err]

dlvars == <<done, path, err, downloaded, size>>
env == <<srvSize, initLen>>
parser == <<blobs, stream, rr, calls, bdata, inflated, groups, whatArg,
            pdata, decoded>>
pvars == <<ppc, start, written, body, pn, perr, dlret, rangeReq, respStatus>>
rvars == <<pc, kind, rderr, read, fn, ferr, ret>>
vars == <<done, path, err, downloaded, size, file, srvSize, initLen,
          ppc, start, written, body, pn, perr, dlret, rangeReq, respStatus,
          pc, kind, rderr, read, fn, ferr, ret, epc, eret, status, stops,
          blobs, stream, rr, calls, bdata, inflated, groups, whatArg,
          pdata, decoded>>

NoRet == [n |-> -1, err |-> "nil"]
NoRange == <<-1, -1>>

\* cond.Broadcast: every goroutine blocked in cond.Wait becomes runnable
Woken(s) ==
  CASE s = "ReaderWait" -> "ReaderWoken"
    [] s = "ReadWait" -> "ReadWoken"
    [] s = "ErrorWait" -> "ErrorWoken"
    [] OTHER -> s

\* a wake-up that reaches one waiter only (cond.Signal)
SignalOne(p) ==
  IF \E i \in DOMAIN p : Woken(p[i]) # p[i]
    THEN LET i == CHOOSE i \in DOMAIN p : Woken(p[i]) # p[i]
         IN [p EXCEPT ![i] = Woken(p[i])]
    ELSE p

Broadcast(p) == [i \in DOMAIN p |-> Woken(p[i])]

\* the state when Download has been called and its goroutine has not run
DlInit ==
  /\ done = FALSE /\ path = "" /\ err = "nil" /\ downloaded = 0 /\ size = 0
  /\ srvSize \in 1..MaxSize
  /\ initLen \in 0..(MaxSize + 1)
  /\ file = [i \in 1..initLen |-> Content(i - 1)]
  /\ ppc = "head"
  /\ start = 0 /\ written = 0 /\ body = <<>> /\ pn = 0 /\ perr = "nil"
  /\ dlret = "nil" /\ rangeReq = NoRange /\ respStatus = 0
  /\ pc = [r \in Readers |-> "idle"]
  /\ kind = [r \in Readers |-> "none"]
  /\ rderr = [r \in Readers |-> "nil"]
  /\ read = [r \in Readers |-> 0]
  /\ fn = [r \in Readers |-> 0]
  /\ ferr = [r \in Readers |-> "nil"]
  /\ ret = [r \in Readers |-> NoRet]
  /\ epc = [e \in ErrCallers |-> "idle"]
  /\ eret = [e \in ErrCallers |-> "nil"]
  /\ status = [o \in Observers |->
                 [Done |-> FALSE, Path |-> "", Downloaded |-> 0, Size |-> 0]]
  /\ stops = 0

\* no BlockReader is in use and no block is being decoded
ParserIdle ==
  /\ blobs = <<>>
  /\ stream = <<>>
  /\ rr = [off |-> 0, err |-> "nil", pos |-> 0]
  /\ calls = <<>>
  /\ bdata = <<>>
  /\ inflated = [data |-> <<>>, err |-> "none"]
  /\ groups = <<>>
  /\ whatArg = 0
  /\ pdata = <<>>
  /\ decoded = [err |-> "none"]

Init == DlInit /\ ParserIdle

\* ---------------------------------------------------------------------
\* download: the producer
\* ---------------------------------------------------------------------

\* client.Head, the status check and ParseInt of Content-Length
HeadRequest ==
  /\ ppc = "head"
  /\ \/ /\ ppc' = "open" /\ dlret' = dlret
     \/ /\ ppc' = "returned" /\ dlret' = "head failed"
  /\ UNCHANGED <<dlvars, file, env, parser, start, written, body, pn, perr,
                 rangeReq, respStatus, rvars, epc, eret, status, stops>>

\* os.OpenFile(O_CREATE|O_RDWR), f.Seek(0, 2), start > size
OpenSeek ==
  /\ ppc = "open"
  /\ \/ /\ ppc' = "returned" /\ dlret' = "open failed" /\ start' = start
     \/ /\ start' = Len(file)
        /\ IF Len(file) > srvSize
             THEN ppc' = "returned" /\ dlret' = "corrupt: too much data written"
             ELSE ppc' = "publish" /\ dlret' = dlret
  /\ UNCHANGED <<dlvars, file, env, parser, written, body, pn, perr,
                 rangeReq, respStatus, rvars, epc, eret, status, stops>>

\* dl.path, dl.size, dl.downloaded under the lock, Broadcast; start == size
Publish ==
  /\ ppc = "publish"
  /\ path' = Path
  /\ size' = srvSize
  /\ downloaded' = start
  /\ pc' = Broadcast(pc)
  /\ epc' = Broadcast(epc)
  /\ IF start = srvSize
       THEN ppc' = "returned" /\ dlret' = "nil"
       ELSE ppc' = "get" /\ dlret' = dlret
  /\ UNCHANGED <<done, err, file, env, parser, start, written, body, pn, perr,
                 rangeReq, respStatus, kind, rderr, read, fn, ferr, ret,
                 eret, status, stops>>

\* the body a server sends: from offset off, len bytes, of the content
\* (status 200 or 206) or of an error page (any other status)
BodyOf(st, off, len) ==
  [i \in 1..len |-> IF st \in {200, 206} THEN Content(off + i - 1) ELSE Garbage]

\* the Range header, client.Do answered with status st and a body of len
\* bytes, and "written := start"; a 206 body starts at the offset asked
\* for, any other body at offset 0
Answer(st, len) ==
  /\ rangeReq' = <<start, srvSize - 1>>
  /\ written' = start
  /\ respStatus' = st
  /\ body' = BodyOf(st, IF st = 206 THEN start ELSE 0, len)
  /\ ppc' = "body" /\ dlret' = dlret

\* http.NewRequest, the Range header, the check of res.StatusCode (res is
\* still the HEAD response, whose status is 200) and client.Do
Get ==
  /\ ppc = "get"
  /\ \/ /\ ppc' = "returned" /\ dlret' = "get failed"
        /\ UNCHANGED <<rangeReq, respStatus, body, written>>
     \/ \E st \in {200, 206, 404} :
          \E len \in 0..(srvSize - start + 1) : Answer(st, len)
  /\ UNCHANGED <<dlvars, file, env, parser, start, pn, perr,
                 rvars, epc, eret, status, stops>>

\* the same lines against a server that answers the range request as HTTP
\* has it: 206 with exactly the range asked for, or 200 with the whole
\* content
GetServed ==
  /\ ppc = "get"
  /\ \/ /\ ppc' = "returned" /\ dlret' = "get failed"
        /\ UNCHANGED <<rangeReq, respStatus, body, written>>
     \/ Answer(206, srvSize - start)
     \/ Answer(200, srvSize)
  /\ UNCHANGED <<dlvars, file, env, parser, start, pn, perr,
                 rvars, epc, eret, status, stops>>

\* what follows a chunk: "if err != nil" of the read loop
AfterChunk(e, w, sz) ==
  CASE e = "nil" -> [ppc |-> "body", dlret |-> "nil"]
    [] e = "EOF" /\ w # sz -> [ppc |-> "returned", dlret |-> "unexpected EOF"]
    [] e = "EOF" /\ w = sz -> [ppc |-> "sync", dlret |-> "nil"]
    [] OTHER -> [ppc |-> "returned", dlret |-> e]

\* a check that lets one byte too many through
TooMuchLate(w, sz) == w > sz + 1

\* "if written > size" of the read loop
TooMuch(w, sz) == w > sz

\* n, err := res.Body.Read(packet); written += n; written > size
BodyRead ==
  /\ ppc = "body"
  /\ \E n \in 0..Min(MaxChunk, Len(body)) :
     \E e \in {"nil", "EOF", "read failed"} :
       /\ e = "nil" => n > 0
       /\ e = "EOF" => n = Len(body)
       /\ pn' = n /\ perr' = e
       /\ written' = written + n
       /\ IF n > 0
            THEN IF TooMuch(written + n, srvSize)
                   THEN ppc' = "returned"
                        /\ dlret' = "corrupt: too much data written"
                   ELSE ppc' = "chunk" /\ dlret' = dlret
            ELSE ppc' = AfterChunk(e, written, srvSize).ppc
                 /\ dlret' = AfterChunk(e, written, srvSize).dlret
  /\ UNCHANGED <<dlvars, file, env, parser, start, body, rangeReq, respStatus,
                 rvars, epc, eret, status, stops>>

\* the length of the chunk in place of the running total
ChunkLength(w, n) == n

\* the value the chunk step stores in dl.downloaded, given written and n
NewDownloaded(w, n) == w

\* a loop that writes the chunk without looking at dl.err
ErrUnseen(e) == FALSE

\* "if dl.err != nil" of the read loop, under the lock
ErrSeen(e) == e # "nil"

\* the locked part of the loop: dl.err, f.Write, dl.downloaded, Broadcast
ChunkWrite ==
  /\ ppc = "chunk"
  /\ IF ErrSeen(err)
       THEN /\ ppc' = "returned" /\ dlret' = err
            /\ UNCHANGED <<file, body, downloaded, pc, epc>>
       ELSE \/ /\ ppc' = "returned" /\ dlret' = "write failed"
               /\ UNCHANGED <<file, body, downloaded, pc, epc>>
            \/ /\ file' = file \o SubSeq(body, 1, pn)
               /\ body' = SubSeq(body, pn + 1, Len(body))
               /\ downloaded' = NewDownloaded(written, pn)
               /\ pc' = Broadcast(pc)
               /\ epc' = Broadcast(epc)
               /\ ppc' = AfterChunk(perr, written, srvSize).ppc
               /\ dlret' = AfterChunk(perr, written, srvSize).dlret
  /\ UNCHANGED <<done, path, err, size, env, parser, start, written, pn, perr,
                 rangeReq, respStatus, kind, rderr, read, fn, ferr, ret,
                 eret, status, stops>>

\* f.Sync and f.Close
Sync ==
  /\ ppc = "sync"
  /\ ppc' = "returned"
  /\ \/ dlret' = "nil"
     \/ dlret' = "sync failed"
  /\ UNCHANGED <<dlvars, file, env, parser, start, written, body, pn, perr,
                 rangeReq, respStatus, rvars, epc, eret, status, stops>>

\* the last error wins
RecordedLast(cur, e) == e

\* the error the goroutine of Download records: the first one wins
Recorded(cur, e) == IF cur = "nil" THEN e ELSE cur

\* a goroutine that clears the progress when the download fails
RecordErrReset ==
  /\ ppc = "returned"
  /\ ppc' = "deferred"
  /\ IF dlret # "nil"
       THEN /\ err' = Recorded(err, dlret)
            /\ downloaded' = 0
            /\ pc' = Broadcast(pc)
            /\ epc' = Broadcast(epc)
       ELSE UNCHANGED <<err, downloaded, pc, epc>>
  /\ UNCHANGED <<done, path, size, file, env, parser, start, written,
                 body, pn, perr, dlret, rangeReq, respStatus, kind, rderr,
                 read, fn, ferr, ret, eret, status, stops>>

\* "if err := download(...); err != nil" in the goroutine of Download
RecordErr ==
  /\ ppc = "returned"
  /\ ppc' = "deferred"
  /\ IF dlret # "nil"
       THEN /\ err' = Recorded(err, dlret)
            /\ pc' = Broadcast(pc)
            /\ epc' = Broadcast(epc)
       ELSE UNCHANGED <<err, pc, epc>>
  /\ UNCHANGED <<done, path, downloaded, size, file, env, parser, start, written,
                 body, pn, perr, dlret, rangeReq, respStatus, kind, rderr,
                 read, fn, ferr, ret, eret, status, stops>>

\* the deferred function of the goroutine: dl.done = true, Broadcast
SetDone ==
  /\ ppc = "deferred"
  /\ ppc' = "exited"
  /\ done' = TRUE
  /\ pc' = Broadcast(pc)
  /\ epc' = Broadcast(epc)
  /\ UNCHANGED <<path, err, downloaded, size, file, env, parser, start, written,
                 body, pn, perr, dlret, rangeReq, respStatus, kind, rderr,
                 read, fn, ferr, ret, eret, status, stops>>

Producer == HeadRequest \/ OpenSeek \/ Publish \/ Get \/ BodyRead \/ ChunkWrite
              \/ Sync \/ RecordErr \/ SetDone

\* ---------------------------------------------------------------------
\* Stop, Error, Status
\* ---------------------------------------------------------------------

\* Stop that looks at dl.err alone
StopErrNoDone(d, e) == IF e # "nil" THEN e ELSE "stopped"

\* dl.err after Stop: "stopped" unless the download is done or has an error
StopErr(d, e) == IF d \/ e # "nil" THEN e ELSE "stopped"

\* Stop: the deferred Broadcast runs on both paths, before Unlock
Stop ==
  /\ stops < MaxStops
  /\ stops' = stops + 1
  /\ err' = StopErr(done, err)
  /\ pc' = Broadcast(pc)
  /\ epc' = Broadcast(epc)
  /\ UNCHANGED <<done, path, downloaded, size, file, env, parser, pvars,
                 kind, rderr, read, fn, ferr, ret, eret, status>>

\* Error that returns as soon as an error is recorded
ErrorReturnsOnErr(d, e) == d \/ e # "nil"

\* the loop condition of Error: it returns when this holds, else it waits
ErrorReturns(d, e) == d

\* Error: "for !dl.done { dl.cond.Wait() }; return dl.err", entered by the
\* call or by waking up in the loop
Error(e) ==
  /\ epc[e] \in {"idle", "ErrorWoken"}
  /\ IF ErrorReturns(done, err)
       THEN epc' = [epc EXCEPT ![e] = "returned"]
            /\ eret' = [eret EXCEPT ![e] = err]
       ELSE epc' = [epc EXCEPT ![e] = "ErrorWait"]
            /\ eret' = eret
  /\ UNCHANGED <<dlvars, file, env, parser, pvars, rvars, status, stops>>

\* Status: a snapshot of the four fields under the lock
Status(o) ==
  /\ status' = [status EXCEPT ![o] =
                  [Done |-> done, Path |-> path,
                   Downloaded |-> downloaded, Size |-> size]]
  /\ UNCHANGED <<dlvars, file, env, parser, pvars, rvars, epc, eret, stops>>

\* ---------------------------------------------------------------------
\* Reader and the readers it hands out
\* ---------------------------------------------------------------------

\* Reader that goes on to os.Open without waiting for the path: opening ""
\* fails
ReaderResultNoWait(dlerr, dlpath, dldone, ok) ==
  CASE dlerr # "nil" -> [pc |-> "ready", kind |-> "err", rderr |-> dlerr]
    [] dlerr = "nil" /\ (dlpath = "" \/ ~ok) ->
         [pc |-> "ready", kind |-> "err", rderr |-> dlerr]
    [] dlerr = "nil" /\ dlpath # "" /\ ok /\ dldone ->
         [pc |-> "ready", kind |-> "file", rderr |-> "nil"]
    [] OTHER -> [pc |-> "ready", kind |-> "tail", rderr |-> "nil"]

\* one pass of the loop of Reader under the lock; ok: os.Open succeeded
ReaderResult(dlerr, dlpath, dldone, ok) ==
  CASE dlerr # "nil" -> [pc |-> "ready", kind |-> "err", rderr |-> dlerr]
    [] dlerr = "nil" /\ dlpath = "" ->
         [pc |-> "ReaderWait", kind |-> "none", rderr |-> "nil"]
    [] dlerr = "nil" /\ dlpath # "" /\ ~ok ->
         [pc |-> "ready", kind |-> "err", rderr |-> dlerr]
    [] dlerr = "nil" /\ dlpath # "" /\ ok /\ dldone ->
         [pc |-> "ready", kind |-> "file", rderr |-> "nil"]
    [] OTHER -> [pc |-> "ready", kind |-> "tail", rderr |-> "nil"]

\* Reader, entered by the call or by waking up in the loop
Reader(r) ==
  /\ pc[r] \in {"idle", "ReaderWoken"}
  /\ \E ok \in BOOLEAN :
       LET res == ReaderResult(err, path, done, ok) IN
         /\ pc' = [pc EXCEPT ![r] = res.pc]
         /\ kind' = [kind EXCEPT ![r] = res.kind]
         /\ rderr' = [rderr EXCEPT ![r] = res.rderr]
  /\ UNCHANGED <<dlvars, file, env, parser, pvars, read, fn, ferr, ret,
                 epc, eret, status, stops>>

\* dlErrReader.Read
ErrRead(r) ==
  /\ pc[r] = "ready" /\ kind[r] = "err"
  /\ ret' = [ret EXCEPT ![r] = [n |-> 0, err |-> rderr[r]]]
  /\ UNCHANGED <<dlvars, file, env, parser, pvars, pc, kind, rderr, read, fn,
                 ferr, epc, eret, status, stops>>

\* os.File.Read at offset off of a non-empty buffer: the outcomes
FileRead(off) ==
  IF off < Len(file)
    THEN {[n |-> n, err |-> "nil"] : n \in 1..Min(MaxChunk, Len(file) - off)}
           \cup {[n |-> 0, err |-> "io error"]}
    ELSE {[n |-> 0, err |-> "EOF"], [n |-> 0, err |-> "io error"]}

\* dlReader.Read, before the lock: n, err := rd.f.Read(p); rd.read += n.
\* Entered by the call or by "continue" after a wake-up.
ReadFile(r) ==
  /\ kind[r] = "tail"
  /\ pc[r] \in {"ready", "ReadWoken"}
  /\ \E res \in FileRead(read[r]) :
       /\ fn' = [fn EXCEPT ![r] = res.n]
       /\ ferr' = [ferr EXCEPT ![r] = res.err]
       /\ read' = [read EXCEPT ![r] = read[r] + res.n]
  /\ ret' = [ret EXCEPT ![r] = NoRet]
  /\ pc' = [pc EXCEPT ![r] = "ReadLock"]
  /\ UNCHANGED <<dlvars, file, env, parser, pvars, kind, rderr,
                 epc, eret, status, stops>>

\* Read that passes the end of the file on as it finds it, without comparing
\* rd.read with dl.size
ReadDecisionPlain(n, e, rdread, dlerr, dlsize) ==
  IF dlerr # "nil"
    THEN [act |-> "return", n |-> n, err |-> dlerr]
    ELSE [act |-> "return", n |-> n, err |-> e]

\* Read that clears the EOF while rd.read < dl.size whatever n is
ReadDecisionClearEOF(n, e, rdread, dlerr, dlsize) ==
  CASE dlerr # "nil" -> [act |-> "return", n |-> n, err |-> dlerr]
    [] dlerr = "nil" /\ e = "EOF" ->
         [act |-> "return", n |-> n,
          err |-> IF rdread < dlsize THEN "nil" ELSE "EOF"]
    [] OTHER -> [act |-> "return", n |-> n, err |-> e]

\* dlReader.Read under the lock: return (n, err) or wait
ReadDecision(n, e, rdread, dlerr, dlsize) ==
  CASE dlerr # "nil" -> [act |-> "return", n |-> n, err |-> dlerr]
    [] dlerr = "nil" /\ e = "EOF" /\ n > 0 ->
         [act |-> "return", n |-> n,
          err |-> IF rdread < dlsize THEN "nil" ELSE "EOF"]
    [] dlerr = "nil" /\ e = "EOF" /\ n <= 0 /\ rdread > dlsize ->
         [act |-> "return", n |-> n, err |-> "corrupt: too much data written"]
    [] dlerr = "nil" /\ e = "EOF" /\ n <= 0 /\ rdread = dlsize ->
         [act |-> "return", n |-> n, err |-> "EOF"]
    [] dlerr = "nil" /\ e = "EOF" /\ n <= 0 /\ rdread < dlsize ->
         [act |-> "wait", n |-> n, err |-> "nil"]
    [] OTHER -> [act |-> "return", n |-> n, err |-> e]

ReadLocked(r) ==
  /\ pc[r] = "ReadLock"
  /\ LET d == ReadDecision(fn[r], ferr[r], read[r], err, size) IN
       IF d.act = "wait"
         THEN pc' = [pc EXCEPT ![r] = "ReadWait"] /\ ret' = ret
         ELSE pc' = [pc EXCEPT ![r] = "ready"]
              /\ ret' = [ret EXCEPT ![r] = [n |-> d.n, err |-> d.err]]
  /\ fn' = [fn EXCEPT ![r] = 0]
  /\ ferr' = [ferr EXCEPT ![r] = "nil"]
  /\ UNCHANGED <<dlvars, file, env, parser, pvars, kind, rderr, read,
                 epc, eret, status, stops>>

Consumer(r) == Reader(r) \/ ErrRead(r) \/ ReadFile(r) \/ ReadLocked(r)

\* The consumers only read dlfut and the file, and every wake-up is a
\* Broadcast, so callers of different methods do not influence one another:
\* the producer and Stop run with the readers under Spec and with the callers
\* of Error and Status under StatusSpec.
Next ==
  \/ Producer
  \/ Stop
  \/ \E r \in Readers : Consumer(r)

Spec == Init /\ [][Next]_vars

StatusNext ==
  \/ Producer
  \/ Stop
  \/ \E e \in ErrCallers : Error(e)
  \/ \E o \in Observers : Status(o)

StatusSpec == Init /\ [][StatusNext]_vars

\* Download called again with the same url and path after the goroutine of
\* the earlier call has exited: a new dlfut and a new goroutine, while the
\* file is what the earlier call left
Download ==
  /\ ppc = "exited"
  /\ done' = FALSE /\ path' = "" /\ err' = "nil"
  /\ downloaded' = 0 /\ size' = 0
  /\ ppc' = "head"
  /\ start' = 0 /\ written' = 0 /\ body' = <<>> /\ pn' = 0 /\ perr' = "nil"
  /\ dlret' = "nil" /\ rangeReq' = NoRange /\ respStatus' = 0
  /\ initLen' = Len(file)
  /\ stops' = 0
  /\ UNCHANGED <<file, srvSize, parser, rvars, epc, eret, status>>

\* runs of Download one after the other on one path, each of them stopped,
\* failed or completed, against a server that answers with 206 or 200
ResumeNext ==
  \/ HeadRequest \/ OpenSeek \/ Publish \/ GetServed \/ BodyRead
  \/ ChunkWrite \/ Sync \/ RecordErr \/ SetDone
  \/ Stop
  \/ Download

ResumeSpec == Init /\ [][ResumeNext]_vars

\* The system in which nobody calls Stop, with the scheduler's fairness: a
\* goroutine that can take the next step of a call already made takes it
\* (making a new call is up to the caller).
Continue(r) ==
  \/ pc[r] = "ReaderWoken" /\ Reader(r)
  \/ pc[r] = "ReadWoken" /\ ReadFile(r)
  \/ ReadLocked(r)

LiveNext ==
  \/ Producer
  \/ \E r \in Readers : Consumer(r)

LiveSpec ==
  /\ Init /\ [][LiveNext]_vars
  /\ \A r \in Readers : WF_vars(Continue(r))

\* ---------------------------------------------------------------------
\* package pbf: the wire format
\* ---------------------------------------------------------------------

\* A value that is used more than once is handed to a local operator as its
\* argument, so that it is computed once where the code computes it once.

\* s[n:] and s[:n] of a byte slice
Drop(s, n) == SubSeq(s, n + 1, Len(s))
Take(s, n) == SubSeq(s, 1, n)

\* binary.Uvarint from byte i (0-based) on, x and s being the value and the
\* shift so far: n = 0 when the bytes run out, n < 0 on overflow
RECURSIVE UvarintAt(_, _, _, _)
UvarintAt(buf, i, x, s) ==
  IF i >= Len(buf) THEN [x |-> 0, n |-> 0]
  ELSE IF i = 10 THEN [x |-> 0, n |-> -(i + 1)]
  ELSE IF buf[i + 1] < 128
    THEN IF i = 9 /\ buf[i + 1] > 1
           THEN [x |-> 0, n |-> -(i + 1)]
           ELSE [x |-> x + buf[i + 1] * 2^s, n |-> i + 1]
    ELSE UvarintAt(buf, i + 1, x + (buf[i + 1] % 128) * 2^s, s + 7)

Uvarint(buf) == UvarintAt(buf, 0, 0, 0)

\* binary.Varint: the zig-zag decoding of Uvarint
Varint(buf) ==
  LET zigzag(u) ==
        [x |-> IF u.x % 2 = 0 THEN u.x \div 2 ELSE -(u.x \div 2) - 1,
         n |-> u.n]
  IN zigzag(Uvarint(buf))

\* binary.LittleEndian.Uint32 and Uint64
RECURSIVE LittleEndian(_)
LittleEndian(b) ==
  IF Len(b) = 0 THEN 0 ELSE b[1] + 256 * LittleEndian(Drop(b, 1))

\* binary.BigEndian.Uint32
RECURSIVE BigEndian(_)
BigEndian(b) ==
  IF Len(b) = 0 THEN 0 ELSE b[Len(b)] + 256 * BigEndian(Take(b, Len(b) - 1))

typeVarint == 0
type64Bit == 1
typeLength == 2
type32Bit == 5

NoField == [num |-> 0, typ |-> 0, data |-> <<>>]

\* what readField does when it fails: rd.err is set, no field
FieldErr(e, ptr) == [err |-> e, f |-> NoField, rest |-> ptr]

\* "x > uint64(len(rd.ptr))" of readField, negated
LengthOK(x, ptr) == x <= Len(ptr)

\* reader.readField on the bytes left: the field, the error, the bytes left
\* after it
readField(ptr) ==
  LET sized(num, typ, p1, v, n) ==
        IF Len(p1) < n THEN FieldErr("unexpected EOF", p1)
        ELSE IF typ = typeLength
          THEN IF ~LengthOK(v.x, Drop(p1, n))
                 THEN FieldErr("unexpected EOF", Drop(p1, n))
                 ELSE [err |-> "nil",
                       f |-> [num |-> num, typ |-> typ,
                              data |-> Take(Drop(p1, n), v.x)],
                       rest |-> Drop(Drop(p1, n), v.x)]
          ELSE [err |-> "nil",
                f |-> [num |-> num, typ |-> typ, data |-> Take(p1, n)],
                rest |-> Drop(p1, n)]
      typed(num, typ, p1, v) ==
        IF typ \notin {typeVarint, type64Bit, typeLength, type32Bit}
          THEN FieldErr("bad wire type", p1)
        ELSE IF typ \in {typeVarint, typeLength} /\ v.n <= 0
          THEN FieldErr("invalid argument", p1)
        ELSE sized(num, typ, p1, v,
                   CASE typ \in {typeVarint, typeLength} -> v.n
                     [] typ = type64Bit -> 8
                     [] typ = type32Bit -> 4)
      tagged(t, p1) == typed(t.x \div 8, t.x % 8, p1, Uvarint(p1))
      keyed(t) ==
        IF t.n <= 0 THEN FieldErr("invalid argument", ptr)
        ELSE tagged(t, Drop(ptr, t.n))
  IN IF Len(ptr) = 0 THEN FieldErr("EOF", ptr) ELSE keyed(Uvarint(ptr))

\* ForEachField: the fields handed to iter, in order, and the error the loop
\* ends with when iter returned none ("nil" at the end of the bytes)
RECURSIVE ForEachField(_)
ForEachField(bytes) ==
  LET then(f, t) == [fields |-> <<f>> \o t.fields, err |-> t.err]
      iter(r) ==
        IF r.err = "EOF" THEN [fields |-> <<>>, err |-> "nil"]
        ELSE IF r.err # "nil" THEN [fields |-> <<>>, err |-> r.err]
        ELSE then(r.f, ForEachField(r.rest))
  IN iter(readField(bytes))

\* Field.Uint64
Uint64(f) ==
  CASE f.typ \in {type32Bit, type64Bit} -> LittleEndian(f.data)
    [] f.typ = typeVarint -> Uvarint(f.data).x
    [] OTHER -> 0

\* Field.Int64
Int64(f) ==
  CASE f.typ \in {type32Bit, type64Bit} -> LittleEndian(f.data)
    [] f.typ = typeVarint -> Varint(f.data).x
    [] OTHER -> 0

\* Field.Data
Data(f) == IF f.typ = typeLength THEN f.data ELSE <<>>

\* ForEachPackedUint64 on f.data: the values handed to iter, in order, and
\* the error the loop ends with when iter returned none
RECURSIVE ForEachPackedUint64(_)
ForEachPackedUint64(d) ==
  LET then(x, t) == [vals |-> <<x>> \o t.vals, err |-> t.err]
      iter(u) ==
        IF u.n = 0 THEN [vals |-> <<>>, err |-> "buffer too small"]
        ELSE IF u.n < 0
          THEN [vals |-> <<>>, err |-> "value larget than 64 bits"]
        ELSE then(u.x, ForEachPackedUint64(Drop(d, u.n)))
  IN IF Len(d) = 0 THEN [vals |-> <<>>, err |-> "nil"] ELSE iter(Uvarint(d))

\* ForEachPackedInt64 on f.data
RECURSIVE ForEachPackedInt64(_)
ForEachPackedInt64(d) ==
  LET then(x, t) == [vals |-> <<x>> \o t.vals, err |-> t.err]
      iter(u) ==
        IF u.n = 0 THEN [vals |-> <<>>, err |-> "buffer too small"]
        ELSE IF u.n < 0
          THEN [vals |-> <<>>, err |-> "value larget than 64 bits"]
        ELSE then(u.x, ForEachPackedInt64(Drop(d, u.n)))
  IN IF Len(d) = 0 THEN [vals |-> <<>>, err |-> "nil"] ELSE iter(Varint(d))

\* ---------------------------------------------------------------------
\* the file format, written out: the streams the readers are run on
\* ---------------------------------------------------------------------

RECURSIVE EncUvarint(_)
EncUvarint(x) ==
  IF x < 128 THEN <<x>> ELSE <<128 + (x % 128)>> \o EncUvarint(x \div 128)

\* a signed value as a zig-zag varint (sint64)
EncSint(x) == EncUvarint(IF x >= 0 THEN 2 * x ELSE -2 * x - 1)

EncTag(num, typ) == EncUvarint(num * 8 + typ)

\* a LENGTH field and a VARINT field
EncLength(num, d) == EncTag(num, typeLength) \o EncUvarint(Len(d)) \o d
EncVarintField(num, x) == EncTag(num, typeVarint) \o EncUvarint(x)

\* a packed array of unsigned values, and of signed ones
RECURSIVE EncPacked(_)
EncPacked(xs) ==
  IF Len(xs) = 0 THEN <<>> ELSE EncUvarint(xs[1]) \o EncPacked(Drop(xs, 1))

RECURSIVE EncPackedSint(_)
EncPackedSint(xs) ==
  IF Len(xs) = 0 THEN <<>> ELSE EncSint(xs[1]) \o EncPackedSint(Drop(xs, 1))

\* message BlobHeader { type = 1; indexdata = 2; datasize = 3 }
EncBlobHeader(type, datasize) ==
  EncLength(1, type) \o EncVarintField(3, datasize)

\* the 4-byte big-endian length that precedes a BlobHeader
EncUint32(x) ==
  <<(x \div 16777216) % 256, (x \div 65536) % 256, (x \div 256) % 256, x % 256>>

\* a blob in the stream: length prefix, BlobHeader, Blob
EncBlob(b) == EncUint32(Len(b.hdr)) \o b.hdr \o b.data

RECURSIVE EncStream(_)
EncStream(bl) ==
  IF Len(bl) = 0 THEN <<>> ELSE EncBlob(bl[1]) \o EncStream(Drop(bl, 1))

\* the type strings, as bytes
OSMHeader == <<79, 83, 77, 72, 101, 97, 100, 101, 114>>
OSMData == <<79, 83, 77, 68, 97, 116, 97>>

\* compress/zlib, reduced to what the readers rely on: the compressed form
\* of d starts with the two header bytes of a zlib stream and gives d back
ZlibHeader == <<120, 156>>
Deflate(d) == ZlibHeader \o d

\* message Blob: raw = 1, raw_size = 2, zlib_data = 3, lzma_data = 4,
\* OBSOLETE_bzip2_data = 5
RawBlob(d) == EncLength(1, d)
ZlibBlob(d) == EncVarintField(2, Len(d)) \o EncLength(3, Deflate(d))
LzmaBlob(d) == EncVarintField(2, Len(d)) \o EncLength(4, d)
Bzip2Blob(d) == EncVarintField(2, Len(d)) \o EncLength(5, d)

\* a PrimitiveBlock that holds an empty string table and nothing else
EmptyTableBlock == EncLength(1, <<>>)

\* a well-formed blob of the given type around the given Blob bytes
Blob(type, d) ==
  [type |-> type, hdr |-> EncBlobHeader(type, Len(d)), data |-> d]

WellFormed(b) == b.hdr = EncBlobHeader(b.type, Len(b.data))

\* a blob whose BlobHeader starts with a field of wire type 7
BadHeaderBlob == [type |-> OSMData, hdr |-> <<15>>, data |-> <<>>]

MaxBlobs == 3    \* blobs in a stream
MaxCalls == 4    \* calls made on one reader

BlobKinds ==
  {Blob(t, d) : t \in {OSMHeader, OSMData},
                d \in {<<>>, RawBlob(EmptyTableBlock)}}
    \cup {BadHeaderBlob}

BlobLists == UNION {[1..n -> BlobKinds] : n \in 0..MaxBlobs}

\* every variable of the downloader
download == <<dlvars, file, env, pvars, rvars, epc, eret, status, stops>>

\* ---------------------------------------------------------------------
\* rawBlockReader
\* ---------------------------------------------------------------------

\* io.ReadFull of len bytes at offset off of the stream: bytes read, error
ReadFull(off, len) ==
  IF Len(stream) - off >= len THEN [n |-> len, err |-> "nil"]
  ELSE IF Len(stream) - off = 0 THEN [n |-> 0, err |-> "EOF"]
  ELSE [n |-> Len(stream) - off, err |-> "unexpected EOF"]

\* the callback of ReadBlock over the fields of the BlobHeader
RECURSIVE BlobHeaderFields(_, _)
BlobHeaderFields(fs, acc) ==
  IF Len(fs) = 0 THEN acc
  ELSE BlobHeaderFields(Drop(fs, 1),
         CASE fs[1].num = 1 -> [acc EXCEPT !.btype = Data(fs[1])]
           [] fs[1].num = 3 -> [acc EXCEPT !.bsize = Uint64(fs[1])]
           [] OTHER -> acc)

NoRawBlock == [Type |-> <<>>, Data |-> <<>>]

\* an error return of rawBlockReader.ReadBlock: r.err is set
RawFail(r, off, pos, e) ==
  [rr |-> [off |-> off, err |-> e, pos |-> pos],
   n |-> 0, block |-> NoRawBlock, err |-> e]

\* a length prefix read with the low byte first
LittleEndianUint32(b) == LittleEndian(b)

\* hdrLen := binary.BigEndian.Uint32(buf[:])
BigEndianUint32(b) == BigEndian(b)

\* a reader that forgets its error
EntryErrNone(r) == "nil"

\* "if r.err != nil" on entry of ReadBlock
EntryErr(r) == r.err

\* rawBlockReader.ReadBlock on the reader r: the reader after the call and
\* the values returned
rawReadBlock(r) ==
  LET blob(hoff, hpos, h, c) ==
        IF c.err # "nil" THEN RawFail(r, hoff + c.n, hpos, c.err)
        ELSE [rr |-> [off |-> hoff + h.bsize, err |-> "nil",
                      pos |-> hpos + h.bsize],
              n |-> hpos + h.bsize - r.pos,
              block |-> [Type |-> h.btype,
                         Data |-> SubSeq(stream, hoff + 1, hoff + h.bsize)],
              err |-> "nil"]
      sized(hoff, hpos, h) == blob(hoff, hpos, h, ReadFull(hoff, h.bsize))
      header(hoff, hpos, fe) ==
        IF fe.err # "nil" THEN RawFail(r, hoff, hpos, fe.err)
        ELSE sized(hoff, hpos,
                   BlobHeaderFields(fe.fields, [btype |-> <<>>, bsize |-> 0]))
      framed(hdrLen, b) ==
        IF b.err # "nil" THEN RawFail(r, r.off + 4 + b.n, r.pos + 4, b.err)
        ELSE header(r.off + 4 + hdrLen, r.pos + 4 + hdrLen,
                    ForEachField(SubSeq(stream, r.off + 5,
                                        r.off + 4 + hdrLen)))
      length(hdrLen) == framed(hdrLen, ReadFull(r.off + 4, hdrLen))
      prefix(a) ==
        IF a.err # "nil" THEN RawFail(r, r.off + a.n, r.pos, a.err)
        ELSE length(BigEndianUint32(SubSeq(stream, r.off + 1, r.off + 4)))
  IN IF EntryErr(r) # "nil"
       THEN [rr |-> r, n |-> 0, block |-> NoRawBlock, err |-> r.err]
       ELSE prefix(ReadFull(r.off, 4))

\* a stream written from a list of blobs and cut at any length
StreamInit ==
  /\ blobs \in BlobLists
  /\ stream \in {Take(EncStream(blobs), c) : c \in 0..Len(EncStream(blobs))}
  /\ rr = [off |-> 0, err |-> "nil", pos |-> 0]
  /\ calls = <<>>
  /\ bdata = <<>>
  /\ inflated = [data |-> <<>>, err |-> "none"]
  /\ groups = <<>>
  /\ whatArg = 0
  /\ pdata = <<>>
  /\ decoded = [err |-> "none"]

FrameInit == DlInit /\ srvSize = 1 /\ initLen = 0 /\ StreamInit

\* one call of rawBlockReader.ReadBlock
RawReadBlock ==
  /\ Len(calls) < MaxCalls
  /\ \E res \in {rawReadBlock(rr)} :
       /\ rr' = res.rr
       /\ calls' = Append(calls, [n |-> res.n, Type |-> res.block.Type,
                                  Data |-> res.block.Data, err |-> res.err])
  /\ UNCHANGED <<download, blobs, stream, bdata, inflated, groups, whatArg,
                 pdata, decoded>>

FrameSpec == FrameInit /\ [][RawReadBlock]_vars

\* ---------------------------------------------------------------------
\* inflate
\* ---------------------------------------------------------------------

\* zlibInflateGo, with compress/zlib reduced as in Deflate
zlibInflateGo(data, expectedInflatedSize) ==
  IF Len(data) < 2 \/ Take(data, 2) # ZlibHeader
    THEN [data |-> <<>>, err |-> "zlib: invalid header"]
  ELSE IF Len(data) - 2 # expectedInflatedSize
    THEN [data |-> <<>>, err |-> "size mismatch"]
  ELSE [data |-> Drop(data, 2), err |-> "nil"]

\* the callback of inflate over the fields of the Blob bdata; a field of
\* another number (lzma_data, bzip2) has no case
RECURSIVE inflateFields(_, _, _)
inflateFields(fs, bd, acc) ==
  IF Len(fs) = 0 \/ acc.err # "nil" THEN acc
  ELSE inflateFields(Drop(fs, 1), bd,
         CASE fs[1].num = 1 -> [acc EXCEPT !.data = bd]
           [] fs[1].num = 2 -> [acc EXCEPT !.rawSize = Uint64(fs[1])]
           [] fs[1].num = 3 ->
                LET set(z) == [acc EXCEPT !.data = z.data, !.err = z.err]
                IN set(zlibInflateGo(Data(fs[1]), acc.rawSize))
           [] OTHER -> acc)

\* inflate(bdata): data, err
inflate(bd) ==
  LET result(fe, r) ==
        [data |-> r.data, err |-> IF r.err # "nil" THEN r.err ELSE fe.err]
      each(fe) ==
        result(fe, inflateFields(fe.fields, bd,
                                 [data |-> <<>>, rawSize |-> 0,
                                  err |-> "nil"]))
  IN each(ForEachField(bd))

\* ---------------------------------------------------------------------
\* procBlock
\* ---------------------------------------------------------------------

Everything == 0
DataKinds == 1
Strings == 2
Nodes == 3
Ways == 4
Relations == 5

\* Block{}
ZeroBlock ==
  [granularity |-> 0, latOffset |-> 0, lonOffset |-> 0, dateGranularity |-> 0,
   dataKind |-> 0, stringsCount |-> 0, strings |-> <<>>,
   nodes |-> <<>>, nodeStrings |-> <<>>,
   ways |-> <<>>, wayStrings |-> <<>>, wayRefs |-> <<>>,
   relations |-> <<>>, relationStrings |-> <<>>, relationMemberRoles |-> <<>>,
   relationMemberRefs |-> <<>>, relationMemberTypes |-> <<>>]

\* blockNode{}; lat and lon hold latOffset + granularity*latAdder, the
\* integer the code scales by .000000001
ZeroNode == [id |-> 0, lat |-> 0, lon |-> 0, sset |-> 0, send |-> 0]

\* the values a packed array is taken for when no sum is kept
DeltaDecodeNone(xs, adder) == xs

\* "adder += x; append(adder)" over a packed array: the running sums
RECURSIVE DeltaDecode(_, _)
DeltaDecode(xs, adder) ==
  IF Len(xs) = 0 THEN <<>>
  ELSE <<adder + xs[1]>> \o DeltaDecode(Drop(xs, 1), adder + xs[1])

\* the adder after the array
LastSum(sums, adder) == IF Len(sums) = 0 THEN adder ELSE sums[Len(sums)]

\* procStringTable: the first pass fails on bytes that do not parse; the
\* second appends f.Data() of every field it can read
procStringTable(data, block) ==
  LET table(fe) ==
        IF fe.err # "nil" THEN [block |-> block, err |-> fe.err]
        ELSE [block |-> [block EXCEPT
                           !.stringsCount = Len(fe.fields),
                           !.strings = [i \in 1..Len(fe.fields) |->
                                          Data(fe.fields[i])]],
              err |-> "nil"]
  IN table(ForEachField(data))

\* the first pass of procDenseNodes over keys_vals: numStrings
RECURSIVE CountStrings(_, _, _)
CountStrings(xs, which, n) ==
  IF Len(xs) = 0 THEN n
  ELSE IF ~which /\ xs[1] = 0 THEN CountStrings(Drop(xs, 1), which, n)
  ELSE CountStrings(Drop(xs, 1), ~which, n + 1)

\* the first pass of procDenseNodes: numNodes, numStrings
RECURSIVE DenseCount(_, _)
DenseCount(fs, acc) ==
  IF Len(fs) = 0 \/ acc.err # "nil" THEN acc
  ELSE DenseCount(Drop(fs, 1),
         CASE fs[1].num = 1 ->
                LET ids(p) == [acc EXCEPT !.numNodes = @ + Len(p.vals),
                                          !.err = p.err]
                IN ids(ForEachPackedInt64(fs[1].data))
           [] fs[1].num = 10 ->
                LET keysVals(p) ==
                      [acc EXCEPT
                         !.numStrings = CountStrings(p.vals, FALSE, @),
                         !.err = p.err]
                IN keysVals(ForEachPackedUint64(fs[1].data))
           [] OTHER -> acc)

\* a terminator that moves to the next node and keeps "first" as it is
KeyValStepNoReset(st, x) ==
  IF ~st.which /\ x = 0
    THEN [st EXCEPT !.nodeIdx = @ + 1]
  ELSE IF st.nodeIdx >= Len(st.nodes) THEN [st EXCEPT !.err = "panic"]
  ELSE [st EXCEPT
          !.nodes[st.nodeIdx + 1].sset = IF st.first THEN @ ELSE st.stringIdx,
          !.nodes[st.nodeIdx + 1].send = st.stringIdx + 1,
          !.nodeStrings[st.stringIdx + 1] = x,
          !.stringIdx = @ + 1, !.which = ~@, !.first = TRUE]

\* the callback of the second pass over keys_vals, for the value x; writing
\* to a node past the last one panics
KeyValStep(st, x) ==
  IF ~st.which /\ x = 0
    THEN [st EXCEPT !.nodeIdx = @ + 1, !.first = FALSE]
  ELSE IF st.nodeIdx >= Len(st.nodes) THEN [st EXCEPT !.err = "panic"]
  ELSE [st EXCEPT
          !.nodes[st.nodeIdx + 1].sset = IF st.first THEN @ ELSE st.stringIdx,
          !.nodes[st.nodeIdx + 1].send = st.stringIdx + 1,
          !.nodeStrings[st.stringIdx + 1] = x,
          !.stringIdx = @ + 1, !.which = ~@, !.first = TRUE]

RECURSIVE KeysVals(_, _)
KeysVals(xs, st) ==
  IF Len(xs) = 0 \/ st.err # "nil" THEN st
  ELSE KeysVals(Drop(xs, 1), KeyValStep(st, xs[1]))

\* nodes[i].id = v for the running sums vs, i from 0
SetIds(nodes, vs) ==
  [k \in 1..Len(nodes) |->
     IF k <= Len(vs) THEN [nodes[k] EXCEPT !.id = vs[k]] ELSE nodes[k]]

SetLats(nodes, vs, block) ==
  [k \in 1..Len(nodes) |->
     IF k <= Len(vs)
       THEN [nodes[k] EXCEPT
               !.lat = block.latOffset + block.granularity * vs[k]]
       ELSE nodes[k]]

SetLons(nodes, vs, block) ==
  [k \in 1..Len(nodes) |->
     IF k <= Len(vs)
       THEN [nodes[k] EXCEPT
               !.lon = block.lonOffset + block.granularity * vs[k]]
       ELSE nodes[k]]

\* the error of a packed array written to nodes[i]: more values than nodes
\* panic, else the error of the array
PackedErr(p, nodes) == IF Len(p.vals) > Len(nodes) THEN "panic" ELSE p.err

\* the second pass of procDenseNodes
RECURSIVE DenseFill(_, _, _)
DenseFill(fs, block, acc) ==
  IF Len(fs) = 0 \/ acc.err # "nil" THEN acc
  ELSE DenseFill(Drop(fs, 1), block,
    CASE fs[1].num = 1 ->
           LET set(p, vs) == [acc EXCEPT !.nodes = SetIds(@, vs),
                                         !.idAdder = LastSum(vs, @),
                                         !.err = PackedErr(p, acc.nodes)]
               ids(p) == set(p, DeltaDecode(p.vals, acc.idAdder))
           IN ids(ForEachPackedInt64(fs[1].data))
      [] fs[1].num = 8 ->
           LET set(p, vs) == [acc EXCEPT !.nodes = SetLats(@, vs, block),
                                         !.latAdder = LastSum(vs, @),
                                         !.err = PackedErr(p, acc.nodes)]
               lats(p) == set(p, DeltaDecode(p.vals, acc.latAdder))
           IN lats(ForEachPackedInt64(fs[1].data))
      [] fs[1].num = 9 ->
           LET set(p, vs) == [acc EXCEPT !.nodes = SetLons(@, vs, block),
                                         !.lonAdder = LastSum(vs, @),
                                         !.err = PackedErr(p, acc.nodes)]
               lons(p) == set(p, DeltaDecode(p.vals, acc.lonAdder))
           IN lons(ForEachPackedInt64(fs[1].data))
      [] fs[1].num = 10 ->
           LET set(p, st) ==
                 [acc EXCEPT !.nodes = st.nodes,
                             !.nodeStrings = st.nodeStrings,
                             !.err = IF st.err # "nil" THEN st.err
                                                       ELSE p.err]
               keysVals(p) ==
                 set(p, KeysVals(p.vals,
                          [nodes |-> acc.nodes,
                           nodeStrings |-> acc.nodeStrings,
                           stringIdx |-> 0, nodeIdx |-> 0, which |-> FALSE,
                           first |-> FALSE, err |-> "nil"]))
           IN keysVals(ForEachPackedUint64(fs[1].data))
      [] OTHER -> acc)

\* what the block gains from a dense group: the nodes and the strings
DenseAppend(block, nodes, nodeStrings) ==
  [block EXCEPT !.nodes = @ \o nodes, !.nodeStrings = @ \o nodeStrings]

\* procDenseNodes: the block after the call and the error returned
procDenseNodes(data, block) ==
  LET filled(fill) ==
        IF fill.err # "nil" THEN [block |-> block, err |-> fill.err]
        ELSE [block |-> DenseAppend(block, fill.nodes, fill.nodeStrings),
              err |-> "nil"]
      counted(fe, cnt) ==
        IF cnt.err # "nil" THEN [block |-> block, err |-> cnt.err]
        ELSE IF fe.err # "nil" THEN [block |-> block, err |-> fe.err]
        ELSE filled(DenseFill(fe.fields, block,
                      [nodes |-> [k \in 1..cnt.numNodes |-> ZeroNode],
                       nodeStrings |-> [k \in 1..cnt.numStrings |-> 0],
                       idAdder |-> 0, latAdder |-> 0, lonAdder |-> 0,
                       err |-> "nil"]))
      each(fe) ==
        counted(fe, DenseCount(fe.fields,
                      [numNodes |-> 0, numStrings |-> 0, err |-> "nil"]))
  IN each(ForEachField(data))

\* "append(strings, uint32(x), 0)" over the keys
RECURSIVE KeyPairs(_)
KeyPairs(xs) ==
  IF Len(xs) = 0 THEN <<>> ELSE <<xs[1], 0>> \o KeyPairs(Drop(xs, 1))

\* "strings[strValIdx] = uint32(x); strValIdx += 2" over the vals; an index
\* past the end panics
RECURSIVE SetVals(_, _, _)
SetVals(strings, strValIdx, xs) ==
  IF Len(xs) = 0
    THEN [strings |-> strings, strValIdx |-> strValIdx, err |-> "nil"]
  ELSE IF strValIdx >= Len(strings)
    THEN [strings |-> strings, strValIdx |-> strValIdx, err |-> "panic"]
  ELSE SetVals([strings EXCEPT ![strValIdx + 1] = xs[1]], strValIdx + 2,
               Drop(xs, 1))

\* the error a case of procWay or procRelation ends with
CaseErr(e1, e2) == IF e1 # "nil" THEN e1 ELSE e2

\* the callback of procWay over the fields of a Way
RECURSIVE WayFields(_, _)
WayFields(fs, acc) ==
  IF Len(fs) = 0 \/ acc.err # "nil" THEN acc
  ELSE WayFields(Drop(fs, 1),
    CASE fs[1].num = 1 -> [acc EXCEPT !.way.id = Uint64(fs[1])]
      [] fs[1].num = 2 ->
           LET keys(p) ==
                 [acc EXCEPT !.block.wayStrings = @ \o KeyPairs(p.vals),
                             !.err = p.err]
           IN keys(ForEachPackedUint64(fs[1].data))
      [] fs[1].num = 3 ->
           LET set(p, v) == [acc EXCEPT !.block.wayStrings = v.strings,
                                        !.strValIdx = v.strValIdx,
                                        !.err = CaseErr(v.err, p.err)]
               vals(p) == set(p, SetVals(acc.block.wayStrings,
                                         acc.strValIdx, p.vals))
           IN vals(ForEachPackedUint64(fs[1].data))
      [] fs[1].num = 8 ->
           LET refs(p) ==
                 [acc EXCEPT !.block.wayRefs = @ \o DeltaDecode(p.vals, 0),
                             !.err = p.err]
           IN refs(ForEachPackedInt64(fs[1].data))
      [] OTHER -> acc)

\* procWay: the block after the call and the error returned
procWay(data, block) ==
  LET finish(fe, r) ==
        IF CaseErr(r.err, fe.err) # "nil"
          THEN [block |-> r.block, err |-> CaseErr(r.err, fe.err)]
          ELSE [block |-> [r.block EXCEPT
                             !.ways = Append(@,
                                [r.way EXCEPT
                                   !.send = Len(r.block.wayStrings),
                                   !.rend = Len(r.block.wayRefs)])],
                err |-> "nil"]
      each(fe) ==
        finish(fe, WayFields(fe.fields,
               [block |-> block,
                way |-> [id |-> 0, sset |-> Len(block.wayStrings),
                         send |-> 0, rset |-> Len(block.wayRefs),
                         rend |-> 0],
                strValIdx |-> Len(block.wayStrings) + 1, err |-> "nil"]))
  IN each(ForEachField(data))

\* byte(x)
Byte(x) == x % 256

\* the callback of procRelation over the fields of a Relation
RECURSIVE RelationFields(_, _)
RelationFields(fs, acc) ==
  IF Len(fs) = 0 \/ acc.err # "nil" THEN acc
  ELSE RelationFields(Drop(fs, 1),
    CASE fs[1].num = 1 -> [acc EXCEPT !.relation.id = Uint64(fs[1])]
      [] fs[1].num = 2 ->
           LET keys(p) ==
                 [acc EXCEPT
                    !.block.relationStrings = @ \o KeyPairs(p.vals),
                    !.err = p.err]
           IN keys(ForEachPackedUint64(fs[1].data))
      [] fs[1].num = 3 ->
           LET set(p, v) == [acc EXCEPT !.block.relationStrings = v.strings,
                                        !.strValIdx = v.strValIdx,
                                        !.err = CaseErr(v.err, p.err)]
               vals(p) == set(p, SetVals(acc.block.relationStrings,
                                         acc.strValIdx, p.vals))
           IN vals(ForEachPackedUint64(fs[1].data))
      [] fs[1].num = 8 ->
           LET roles(p) ==
                 [acc EXCEPT !.block.relationMemberRoles = @ \o p.vals,
                             !.err = p.err]
           IN roles(ForEachPackedUint64(fs[1].data))
      [] fs[1].num = 9 ->
           LET memids(p) ==
                 [acc EXCEPT
                    !.block.relationMemberRefs = @ \o DeltaDecode(p.vals, 0),
                    !.err = p.err]
           IN memids(ForEachPackedInt64(fs[1].data))
      [] fs[1].num = 10 ->
           LET types(p) ==
                 [acc EXCEPT
                    !.block.relationMemberTypes =
                       @ \o [k \in 1..Len(p.vals) |-> Byte(p.vals[k])],
                    !.err = p.err]
           IN types(ForEachPackedUint64(fs[1].data))
      [] OTHER -> acc)

\* a relation whose members are looked up from the start of the arrays
MsetZero(block) == 0

\* relation.mset = uint32(len(block.relationMemberRefs))
Mset(block) == Len(block.relationMemberRefs)

\* procRelation: the block after the call and the error returned
procRelation(data, block) ==
  LET finish(fe, r) ==
        IF CaseErr(r.err, fe.err) # "nil"
          THEN [block |-> r.block, err |-> CaseErr(r.err, fe.err)]
          ELSE [block |-> [r.block EXCEPT
                             !.relations = Append(@,
                                [r.relation EXCEPT
                                   !.send = Len(r.block.relationStrings),
                                   !.mend =
                                      Len(r.block.relationMemberRefs)])],
                err |-> "nil"]
      each(fe) ==
        finish(fe, RelationFields(fe.fields,
               [block |-> block,
                relation |-> [id |-> 0, sset |-> Len(block.relationStrings),
                              send |-> 0,
                              mset |-> Mset(block),
                              mend |-> 0],
                strValIdx |-> Len(block.relationStrings) + 1,
                err |-> "nil"]))
  IN each(ForEachField(data))

\* what procPrimativeGroup makes of the error procDenseNodes, procWay or
\* procRelation returned: it drops it; a panic is not a return
Dropped(e) == IF e = "panic" THEN e ELSE "nil"

\* the callback of procPrimativeGroup over the fields of a group
RECURSIVE GroupFields(_, _, _)
GroupFields(fs, what, acc) ==
  IF Len(fs) = 0 \/ acc.err # "nil" THEN acc
  ELSE GroupFields(Drop(fs, 1), what,
    CASE fs[1].num = 1 ->
           [acc EXCEPT !.err = "plain node pbf type not supported"]
      [] fs[1].num = 2 ->
           LET result(r) == [block |-> r.block, err |-> Dropped(r.err)]
               tagged(b) ==
                 IF what \in {Everything, Nodes}
                   THEN result(procDenseNodes(Data(fs[1]), b))
                   ELSE [block |-> b, err |-> "nil"]
           IN tagged([acc.block EXCEPT !.dataKind = 0])
      [] fs[1].num = 3 ->
           LET result(r) == [block |-> r.block, err |-> Dropped(r.err)]
               tagged(b) ==
                 IF what \in {Everything, Ways}
                   THEN result(procWay(Data(fs[1]), b))
                   ELSE [block |-> b, err |-> "nil"]
           IN tagged([acc.block EXCEPT !.dataKind = 1])
      [] fs[1].num = 4 ->
           LET result(r) == [block |-> r.block, err |-> Dropped(r.err)]
               tagged(b) ==
                 IF what \in {Everything, Relations}
                   THEN result(procRelation(Data(fs[1]), b))
                   ELSE [block |-> b, err |-> "nil"]
           IN tagged([acc.block EXCEPT !.dataKind = 2])
      [] fs[1].num = 5 -> acc
      [] OTHER -> [acc EXCEPT !.err = "unsupported primative group field"])

\* procPrimativeGroup: the block after the call and the error returned
procPrimativeGroup(what, data, block) ==
  LET finish(fe, r) == [block |-> r.block, err |-> CaseErr(r.err, fe.err)]
      each(fe) ==
        finish(fe, GroupFields(fe.fields, what,
                             [block |-> block, err |-> "nil"]))
  IN each(ForEachField(data))

\* the data kind of the first dense, ways or relations field, -1 if none
RECURSIVE FirstKind(_)
FirstKind(fs) ==
  IF Len(fs) = 0 THEN -1
  ELSE IF fs[1].num \in {2, 3, 4} THEN fs[1].num - 2
  ELSE FirstKind(Drop(fs, 1))

\* onlyDetectPrimativeDataKind: dataKind, err
onlyDetectPrimativeDataKind(data) ==
  LET finish(fe, k) ==
        [dataKind |-> k, err |-> IF k # -1 THEN "nil" ELSE fe.err]
      each(fe) == finish(fe, FirstKind(fe.fields))
  IN each(ForEachField(data))

\* the callback of procBlock over the fields of a PrimitiveBlock
RECURSIVE BlockFields(_, _, _)
BlockFields(fs, what, acc) ==
  IF Len(fs) = 0 \/ acc.err # "nil" THEN acc
  ELSE BlockFields(Drop(fs, 1), what,
    CASE fs[1].num = 1 -> [acc EXCEPT !.stringTable = Data(fs[1])]
      [] fs[1].num = 2 ->
           IF what = DataKinds
             THEN LET set(k) == [acc EXCEPT !.block.dataKind = k.dataKind,
                                            !.err = k.err]
                  IN set(onlyDetectPrimativeDataKind(Data(fs[1])))
           ELSE IF what # Strings
             THEN [acc EXCEPT !.primativeGroups = Append(@, Data(fs[1]))]
           ELSE acc
      [] fs[1].num = 17 -> [acc EXCEPT !.block.granularity = Int64(fs[1])]
      [] fs[1].num = 18 -> [acc EXCEPT !.block.dateGranularity = Int64(fs[1])]
      [] fs[1].num = 19 -> [acc EXCEPT !.block.latOffset = Int64(fs[1])]
      [] fs[1].num = 20 -> [acc EXCEPT !.block.lonOffset = Int64(fs[1])]
      [] OTHER -> [acc EXCEPT !.err = "unsupported field"])

\* "for _, primativeGroup := range primativeGroups"
RECURSIVE Groups(_, _, _)
Groups(gs, what, acc) ==
  IF Len(gs) = 0 \/ acc.err # "nil" THEN acc
  ELSE Groups(Drop(gs, 1), what, procPrimativeGroup(what, gs[1], acc.block))

\* procBlock(what, data): block, err
procBlock(what, data) ==
  LET grouped(g) ==
        IF g.err # "nil" THEN [block |-> ZeroBlock, err |-> g.err]
        ELSE [block |-> g.block, err |-> "nil"]
      tabled(r, st) ==
        IF st.err # "nil" THEN [block |-> ZeroBlock, err |-> st.err]
        ELSE grouped(Groups(r.primativeGroups, what,
                            [block |-> st.block, err |-> "nil"]))
      fielded(fe, r) ==
        IF CaseErr(r.err, fe.err) # "nil"
          THEN [block |-> ZeroBlock, err |-> CaseErr(r.err, fe.err)]
        ELSE IF what = DataKinds THEN [block |-> r.block, err |-> "nil"]
        ELSE tabled(r, procStringTable(r.stringTable, r.block))
      each(fe) ==
        fielded(fe, BlockFields(fe.fields, what,
                  [block |-> [ZeroBlock EXCEPT !.granularity = 100,
                                               !.dateGranularity = 1000],
                   stringTable |-> <<>>, primativeGroups |-> <<>>,
                   err |-> "nil"]))
  IN each(ForEachField(data))

\* ---------------------------------------------------------------------
\* the blocks procBlock and inflate are run on
\* ---------------------------------------------------------------------

MaxItems == 2    \* nodes of a dense group, ways or relations of a group,
                 \* refs of a way, members of a relation
MaxGroups == 2   \* primitive groups of a block

\* the deltas of a DELTA coded array of n values
Deltas(n) == Take(<<3, -2, 5, 10>>, n)

\* the keys and values of one node in keys_vals, without the 0 that ends them
Runs == {<<>>, <<1, 2>>, <<3, 0, 4, 5>>}

\* keys_vals: each run followed by 0
RECURSIVE KeysValsOf(_)
KeysValsOf(runs) ==
  IF Len(runs) = 0 THEN <<>>
  ELSE runs[1] \o <<0>> \o KeysValsOf(Drop(runs, 1))

\* a dense group: the id deltas (lat and lon carry the same) and the runs
DenseGroups ==
  UNION {{[kind |-> 0, ids |-> Deltas(n), runs |-> r, items |-> <<>>] :
            r \in [1..n -> Runs]} : n \in 0..MaxItems}

\* a way or a relation: id, keys, vals, and the deltas of refs or memids
Items ==
  {[id |-> 7, keys |-> kv[1], vals |-> kv[2], refs |-> d] :
     kv \in {<<<<>>, <<>>>>, <<<<1>>, <<2>>>>},
     d \in {Deltas(0), Deltas(MaxItems)}}

ItemGroups(k) ==
  UNION {{[kind |-> k, ids |-> <<>>, runs |-> <<>>, items |-> it] :
            it \in [1..n -> Items]} : n \in 1..MaxItems}

GroupInputs == UNION {[1..n -> DenseGroups \cup ItemGroups(1) \cup ItemGroups(2)] :
                      n \in 1..MaxGroups}

\* message DenseNodes { id = 1; lat = 8; lon = 9; keys_vals = 10 }
EncDense(g) ==
  EncLength(1, EncPackedSint(g.ids)) \o EncLength(8, EncPackedSint(g.ids))
    \o EncLength(9, EncPackedSint(g.ids))
    \o EncLength(10, EncPacked(KeysValsOf(g.runs)))

\* message Way { id = 1; keys = 2; vals = 3; refs = 8 }
EncWay(w) ==
  EncVarintField(1, w.id) \o EncLength(2, EncPacked(w.keys))
    \o EncLength(3, EncPacked(w.vals)) \o EncLength(8, EncPackedSint(w.refs))

\* message Relation { id = 1; keys = 2; vals = 3; roles_sid = 8; memids = 9;
\* types = 10 }, the k-th member having the string k % 2 of the table as its
\* role and type k % 3
EncRelation(r) ==
  EncVarintField(1, r.id) \o EncLength(2, EncPacked(r.keys))
    \o EncLength(3, EncPacked(r.vals))
    \o EncLength(8, EncPacked([k \in 1..Len(r.refs) |-> k % 2]))
    \o EncLength(9, EncPackedSint(r.refs))
    \o EncLength(10, EncPacked([k \in 1..Len(r.refs) |-> k % 3]))

RECURSIVE EncItems(_, _)
EncItems(k, its) ==
  IF Len(its) = 0 THEN <<>>
  ELSE EncLength(k + 2, IF k = 1 THEN EncWay(its[1]) ELSE EncRelation(its[1]))
         \o EncItems(k, Drop(its, 1))

\* message PrimitiveGroup { dense = 2; ways = 3; relations = 4 }
EncGroup(g) ==
  IF g.kind = 0 THEN EncLength(2, EncDense(g)) ELSE EncItems(g.kind, g.items)

RECURSIVE EncGroups(_)
EncGroups(gs) ==
  IF Len(gs) = 0 THEN <<>>
  ELSE EncLength(2, EncGroup(gs[1])) \o EncGroups(Drop(gs, 1))

\* message PrimitiveBlock { stringtable = 1; primitivegroup = 2 }: a table
\* of two strings, then the groups
EncBlock(gs) ==
  EncLength(1, EncLength(1, <<>>) \o EncLength(1, <<97>>)) \o EncGroups(gs)

\* the Blobs a PrimitiveBlock d can come in
BlobForms(d) ==
  {RawBlob(d), RawBlob(d) \o EncVarintField(2, Len(d)), ZlibBlob(d),
   EncVarintField(2, Len(d) + 1) \o EncLength(3, Deflate(d)),
   EncVarintField(2, Len(d)) \o EncLength(3, d),
   LzmaBlob(d), Bzip2Blob(d), <<>>}

\* a block of one group, in one of the forms of a Blob
BlobInit ==
  /\ DlInit /\ srvSize = 1 /\ initLen = 0
  /\ blobs = <<>> /\ stream = <<>>
  /\ rr = [off |-> 0, err |-> "nil", pos |-> 0]
  /\ calls = <<>>
  /\ groups \in {gs \in GroupInputs : Len(gs) = 1}
  /\ whatArg = Everything
  /\ pdata = EncBlock(groups)
  /\ bdata \in BlobForms(pdata)
  /\ inflated = [data |-> <<>>, err |-> "none"]
  /\ decoded = [err |-> "none"]

\* data, err := inflate(rblock.Data)
Inflate ==
  /\ inflated.err = "none"
  /\ inflated' = inflate(bdata)
  /\ UNCHANGED <<download, blobs, stream, rr, calls, bdata, groups, whatArg,
                 pdata, decoded>>

BlobSpec == BlobInit /\ [][Inflate]_vars

\* a block of up to MaxGroups groups and what to decode of it
DecodeInit ==
  /\ DlInit /\ srvSize = 1 /\ initLen = 0
  /\ blobs = <<>> /\ stream = <<>>
  /\ rr = [off |-> 0, err |-> "nil", pos |-> 0]
  /\ calls = <<>>
  /\ bdata = <<>>
  /\ inflated = [data |-> <<>>, err |-> "none"]
  /\ groups \in GroupInputs
  /\ whatArg \in {Everything, DataKinds, Strings, Nodes, Ways, Relations}
  /\ pdata = EncBlock(groups)
  /\ decoded = [err |-> "none"]

\* block, err := procBlock(what, data)
ProcBlock ==
  /\ decoded.err = "none"
  /\ decoded' = procBlock(whatArg, pdata)
  /\ UNCHANGED <<download, blobs, stream, rr, calls, bdata, inflated, groups,
                 whatArg, pdata>>

DecodeSpec == DecodeInit /\ [][ProcBlock]_vars

\* a way or a relation whose keys and vals need not match in number
TagItems ==
  {[id |-> 7, keys |-> k, vals |-> v, refs |-> d] :
     k \in {<<>>, <<1>>, <<1, 3>>}, v \in {<<>>, <<2>>, <<2, 4>>},
     d \in {Deltas(n) : n \in 0..MaxItems}}

\* the groups of ways or of relations made of such items
TagGroups(n) ==
  {[kind |-> k, ids |-> <<>>, runs |-> <<>>, items |-> it] :
     k \in {1, 2}, it \in [1..n -> TagItems]}

\* a block of one group of up to MaxItems ways or relations, or of up to
\* MaxGroups groups of one each
ItemInit ==
  /\ DlInit /\ srvSize = 1 /\ initLen = 0
  /\ blobs = <<>> /\ stream = <<>>
  /\ rr = [off |-> 0, err |-> "nil", pos |-> 0]
  /\ calls = <<>>
  /\ bdata = <<>>
  /\ inflated = [data |-> <<>>, err |-> "none"]
  /\ groups \in UNION ({[1..1 -> TagGroups(n)] : n \in 1..MaxItems}
                         \cup {[1..n -> TagGroups(1)] : n \in 1..MaxGroups})
  /\ whatArg \in {Everything, Ways, Relations}
  /\ pdata = EncBlock(groups)
  /\ decoded = [err |-> "none"]

ItemSpec == ItemInit /\ [][ProcBlock]_vars

\* ---------------------------------------------------------------------
\* BlockReader
\* ---------------------------------------------------------------------

\* a count that keeps the last blob only
LastOnly(n, nn) == nn

\* "n += nn" of ReadBlock and SkipBlock
Accumulate(n, nn) == n + nn

\* the loop of BlockReader.ReadBlock on the reader r, n bytes counted so far
RECURSIVE readBlock(_, _)
readBlock(r, n) ==
  LET parsed(res, pb) ==
        IF pb.err # "nil"
          THEN [rr |-> res.rr, n |-> 0, block |-> ZeroBlock, err |-> pb.err]
          ELSE [rr |-> res.rr, n |-> Accumulate(n, res.n),
                block |-> pb.block, err |-> "nil"]
      unpacked(res, inf) ==
        IF inf.err # "nil"
          THEN [rr |-> res.rr, n |-> 0, block |-> ZeroBlock, err |-> inf.err]
          ELSE parsed(res, procBlock(Everything, inf.data))
      raw(res) ==
        IF res.err # "nil"
          THEN [rr |-> res.rr, n |-> 0, block |-> ZeroBlock, err |-> res.err]
        ELSE IF res.block.Type # OSMData
          THEN readBlock(res.rr, Accumulate(n, res.n))
        ELSE unpacked(res, inflate(res.block.Data))
  IN raw(rawReadBlock(r))

\* the loop of BlockReader.SkipBlock
RECURSIVE skipBlock(_, _)
skipBlock(r, n) ==
  LET raw(res) ==
        IF res.err # "nil"
          THEN [rr |-> res.rr, n |-> 0, block |-> ZeroBlock, err |-> res.err]
        ELSE IF res.block.Type # OSMData
          THEN skipBlock(res.rr, Accumulate(n, res.n))
        ELSE [rr |-> res.rr, n |-> Accumulate(n, res.n), block |-> ZeroBlock,
              err |-> "nil"]
  IN raw(rawReadBlock(r))

\* one call of BlockReader.ReadBlock
ReadBlock ==
  /\ Len(calls) < MaxCalls
  /\ \E res \in {readBlock(rr, 0)} :
       /\ rr' = res.rr
       /\ calls' = Append(calls, [op |-> "ReadBlock", n |-> res.n,
                                  block |-> res.block, err |-> res.err])
  /\ UNCHANGED <<download, blobs, stream, bdata, inflated, groups, whatArg,
                 pdata, decoded>>

\* one call of BlockReader.SkipBlock
SkipBlock ==
  /\ Len(calls) < MaxCalls
  /\ \E res \in {skipBlock(rr, 0)} :
       /\ rr' = res.rr
       /\ calls' = Append(calls, [op |-> "SkipBlock", n |-> res.n,
                                  block |-> res.block, err |-> res.err])
  /\ UNCHANGED <<download, blobs, stream, bdata, inflated, groups, whatArg,
                 pdata, decoded>>

BlockNext == ReadBlock \/ SkipBlock

BlockSpec == FrameInit /\ [][BlockNext]_vars

\* a dense-nodes, way or relation message with a packed array that ends in
\* a half-consumed varint (a value, then a byte with the continuation bit
\* and nothing after it), as a field of a primitive group
Malformed ==
  {EncLength(2, EncLength(1, <<6, 128>>)),
   EncLength(2, EncLength(1, <<6>>) \o EncLength(10, <<1, 128>>)),
   EncLength(3, EncVarintField(1, 7) \o EncLength(2, <<1, 128>>)),
   EncLength(3, EncVarintField(1, 7) \o EncLength(8, <<6, 128>>)),
   EncLength(4, EncVarintField(1, 7) \o EncLength(9, <<6, 128>>)),
   EncLength(4, EncVarintField(1, 7) \o EncLength(10, <<1, 128>>))}

\* the blocks of one group that holds such a message, alone or with
\* well-formed ways around it
MalformedBlocks ==
  LET way == <<[id |-> 7, keys |-> <<1>>, vals |-> <<2>>, refs |-> <<3, -2>>]>>
  IN {EncLength(1, EncLength(1, <<>>) \o EncLength(1, <<97>>))
        \o EncLength(2, EncItems(1, pre) \o m \o EncItems(1, post)) :
        m \in Malformed, pre \in {<<>>, way}, post \in {<<>>, way}}

\* a stream of one OSMData blob that holds such a block, zlib compressed,
\* after an OSMHeader blob or on its own
MalformedInit ==
  /\ DlInit /\ srvSize = 1 /\ initLen = 0
  /\ pdata \in MalformedBlocks
  /\ blobs \in {<<Blob(OSMData, ZlibBlob(pdata))>>,
                <<Blob(OSMHeader, <<>>), Blob(OSMData, ZlibBlob(pdata))>>}
  /\ stream = EncStream(blobs)
  /\ rr = [off |-> 0, err |-> "nil", pos |-> 0]
  /\ calls = <<>>
  /\ bdata = <<>>
  /\ inflated = [data |-> <<>>, err |-> "none"]
  /\ groups = <<>>
  /\ whatArg = Everything
  /\ decoded = [err |-> "none"]

MalformedSpec == MalformedInit /\ [][BlockNext]_vars

\* ---------------------------------------------------------------------
\* Properties
\* ---------------------------------------------------------------------

\* a Read call of a tailing reader has been made and has not returned
Pending(r) == pc[r] \in {"ReadLock", "ReadWait", "ReadWoken"}

\* a Reader call has been made and has not returned
ReaderPending(r) == pc[r] \in {"ReaderWait", "ReaderWoken"}

\* C1: once the downloader has published done = true, every Read of a
\* tailing reader that is pending returns, without any further Stop call
\* (LiveSpec gives the readers their steps and Stop none).
C1_PendingReadReturns ==
  \A r \in Readers : (done /\ Pending(r)) ~> ~Pending(r)

\* C2: a tailing reader's Read returns io.EOF only when the bytes that
\* reader has read equal the declared size; while it has read fewer and no
\* downloader error is recorded, it never reports EOF.
C2_EOFOnlyAtSize ==
  \A r \in Readers :
    (kind[r] = "tail" /\ ret[r].err = "EOF") => read[r] = size

\* a tailing reader of a download that had bytes to fetch has returned EOF
C2_Witness ==
  \E r \in Readers :
    /\ kind[r] = "tail" /\ ret[r] = [n |-> 0, err |-> "EOF"]
    /\ initLen < srvSize /\ read[r] = srvSize

\* C3: a tailing reader's Read never returns (0, nil): it returns n > 0 or
\* an error.
C3_NeverZeroNil ==
  \A r \in Readers :
    (kind[r] = "tail" /\ ret[r] # NoRet) =>
      (ret[r].n > 0 \/ ret[r].err # "nil")

\* a tailing reader opened on the empty file has returned bytes the producer
\* wrote since, and more are expected
C3_Witness ==
  \E r \in Readers :
    /\ kind[r] = "tail" /\ initLen = 0
    /\ ret[r].n > 0 /\ ret[r].err = "nil" /\ read[r] < size

\* C4: after a Stop that recorded "stopped" no Read of a tailing reader and
\* no Reader call is left blocked in cond.Wait, none can block again, and
\* every such call that returns from then on returns the recorded error.
C4_StopWakesWaiters ==
  /\ [](err = "stopped" =>
          \A r \in Readers : pc[r] \notin {"ReadWait", "ReaderWait"})
  /\ [][\A r \in Readers :
          /\ (err = "stopped" /\ Pending(r) /\ pc'[r] = "ready")
               => ret'[r].err = "stopped"
          /\ (err = "stopped" /\ ReaderPending(r) /\ pc'[r] = "ready")
               => (kind'[r] = "err" /\ rderr'[r] = "stopped")]_vars

\* two tailing readers, blocked after the publication, have been woken by
\* Stop: the producer has not broadcast since
C4_Witness ==
  /\ err = "stopped" /\ ppc = "get"
  /\ \E r1, r2 \in Readers :
       r1 # r2 /\ pc[r1] = "ReadWoken" /\ pc[r2] = "ReadWoken"

\* C5: dl.err is set at most once and keeps its first value, whatever Stop
\* calls and failures of the producer follow.
C5_FirstErrorWins == [][err # "nil" => err' = err]_vars

\* the producer failed after Stop had recorded "stopped", a second Stop was
\* made, and "stopped" stayed
C5_Witness ==
  /\ err = "stopped" /\ stops = 2
  /\ dlret \notin {"nil", "stopped"} /\ ppc \in {"deferred", "exited"}

\* C6: done = true is the last step of the download goroutine, and from then
\* on done, err, path, downloaded and size keep their values, Stop included.
C6_DoneIsTerminal ==
  /\ [](done => ppc = "exited")
  /\ [][done => UNCHANGED <<done, err, path, downloaded, size>>]_vars

\* Stop was called on a download that finished without an error
C6_Witness == done /\ err = "nil" /\ stops > 0

\* C7: size and downloaded never decrease, in the fields and in the
\* successive snapshots Status hands to an observer.
C7_Monotonic ==
  [][/\ size' >= size
     /\ downloaded' >= downloaded
     /\ \A o \in Observers :
          /\ status'[o].Size >= status[o].Size
          /\ status'[o].Downloaded >= status[o].Downloaded]_vars

\* an observer holds a snapshot taken during the transfer and the fields
\* have moved on since
C7_Witness ==
  \E o \in Observers :
    /\ status[o].Path # "" /\ status[o].Downloaded > 0
    /\ status[o].Downloaded < downloaded

\* C8: Error returns only when done = true, and it returns the recorded
\* error.
C8_ErrorAfterDone ==
  \A e \in ErrCallers :
    epc[e] = "returned" => (done /\ ppc = "exited" /\ eret[e] = err)

\* Error has returned the error of a download that failed on its own
C8_Witness ==
  \E e \in ErrCallers :
    epc[e] = "returned" /\ eret[e] = "unexpected EOF"

\* C9: Reader returns only once the path is published or an error is
\* recorded, it opens a file only when the path is published, and once the
\* downloader has terminated no Reader call is left blocked.
C9_ReaderWaitsForPath ==
  \A r \in Readers :
    /\ pc[r] \in {"ready", "ReadLock", "ReadWait", "ReadWoken"}
         => (path # "" \/ err # "nil")
    /\ kind[r] \in {"tail", "file"} => path # ""
    /\ done => (pc[r] # "ReaderWait" /\ (path # "" \/ err # "nil"))

\* a Reader call that blocked before the publication has been woken by it
C9_Witness ==
  \E r \in Readers :
    pc[r] = "ReaderWoken" /\ path # "" /\ err = "nil" /\ ppc = "get"

\* the read loop of download reached the end of the body short of the size
EndedShort ==
  /\ ppc \in {"returned", "deferred", "exited"}
  /\ perr = "EOF" /\ written < srvSize
  /\ rangeReq # NoRange

\* C10: resuming a file of initLen bytes against a larger declared size, the
\* range asked for is initLen..size-1, every value downloaded is given lies
\* in initLen..size (it holds its zero value until the status is published),
\* a download that ends without an error leaves file and downloaded at
\* exactly size, and a body that ends short makes download fail, with
\* "unexpected EOF" unless Stop or a failed write ended the loop first.
C10_Resume ==
  /\ [](initLen < srvSize =>
          /\ rangeReq # NoRange => rangeReq = <<initLen, srvSize - 1>>
          /\ path # "" => (downloaded >= initLen /\ downloaded <= srvSize)
          /\ (done /\ err = "nil") =>
               (Len(file) = srvSize /\ downloaded = srvSize)
          /\ EndedShort =>
               /\ dlret \in {"unexpected EOF", "stopped", "write failed"}
               /\ (stops = 0 /\ dlret # "write failed")
                    => dlret = "unexpected EOF"
               /\ done => err # "nil")
  /\ [][(initLen < srvSize /\ downloaded' # downloaded) =>
          (downloaded' >= initLen /\ downloaded' <= srvSize)]_vars

\* a resumed download has finished: one byte was there, the second came
C10_Witness ==
  /\ initLen = 1 /\ srvSize = 2 /\ rangeReq = <<1, 1>>
  /\ done /\ err = "nil" /\ Len(file) = 2 /\ downloaded = 2

\* the bytes of the GET response body: those written to the file since the
\* resume offset and those not yet read
BodyTotal == Len(file) - start + Len(body)

\* the server sent more bytes than the declared size leaves room for
Oversize == rangeReq # NoRange /\ BodyTotal > srvSize - start

\* C11: a file that starts within the declared size never grows past it, nor
\* does downloaded; a download of an oversize body ends with "corrupt: too
\* much data written" unless a failed read, a failed write or Stop ended it
\* first, and the goroutine records an error; bytes on disk are never
\* removed; once that error is recorded no tailing Read stays blocked and
\* every tailing Read that returns, returns it.
C11_Oversize ==
  /\ [](initLen <= srvSize =>
          (Len(file) <= srvSize /\ downloaded <= srvSize))
  /\ []((Oversize /\ ppc \in {"returned", "deferred", "exited"}) =>
          /\ dlret # "corrupt: too much data written" =>
               \/ dlret \in {"read failed", "write failed"}
               \/ dlret = "stopped" /\ err = "stopped"
          /\ ppc # "returned" => (err \in {dlret, "stopped"}))
  /\ [][SubSeq(file', 1, Len(file)) = file]_vars
  /\ [](err = "corrupt: too much data written" =>
          \A r \in Readers : pc[r] # "ReadWait")
  /\ [][\A r \in Readers :
          (err = "corrupt: too much data written" /\ Pending(r)
             /\ pc'[r] = "ready")
            => ret'[r].err = "corrupt: too much data written"]_vars

\* an oversize body was cut off after some of it reached the disk, and a
\* tailing reader that had read those bytes got the error
C11_Witness ==
  /\ Oversize /\ done /\ err = "corrupt: too much data written"
  /\ Len(file) > initLen
  /\ \E r \in Readers :
       /\ kind[r] = "tail" /\ read[r] = Len(file)
       /\ ret[r] = [n |-> 0, err |-> "corrupt: too much data written"]

\* C12: when the GET response has a status other than 200 and 206, nothing
\* of its body reaches the file, downloaded stays at the resume offset, and
\* download returns an error.
C12_BadStatusWritesNothing ==
  (respStatus # 0 /\ respStatus \notin {200, 206}) =>
    /\ Len(file) = start
    /\ downloaded = start
    /\ ppc \notin {"body", "chunk", "sync"}
    /\ dlret # "nil"

\* the stream is the whole of a list of well-formed blobs
FullStream ==
  /\ stream = EncStream(blobs)
  /\ \A i \in 1..Len(blobs) : WellFormed(blobs[i])

\* the sum of the n of a sequence of calls
RECURSIVE SumN(_)
SumN(cs) == IF Len(cs) = 0 THEN 0 ELSE cs[1].n + SumN(Drop(cs, 1))

\* C13: on a stream that is a concatenation of well-formed blobs, the i-th
\* call of rawBlockReader.ReadBlock returns the i-th blob's type and payload
\* with n = 4 + H + datasize, the calls after the last blob return EOF, and
\* when EOF is returned the n returned so far add up to the stream's length.
C13_Framing ==
  FullStream =>
    \A i \in 1..Len(calls) :
      /\ i <= Len(blobs) =>
           calls[i] = [n |-> 4 + Len(blobs[i].hdr) + Len(blobs[i].data),
                       Type |-> blobs[i].type, Data |-> blobs[i].data,
                       err |-> "nil"]
      /\ i > Len(blobs) => (calls[i].err = "EOF" /\ calls[i].n = 0)
      /\ calls[i].err = "EOF" => SumN(Take(calls, i)) = Len(stream)

\* two blobs of different types, the second with a payload, were returned
\* and the third call returned EOF
C13_Witness ==
  /\ FullStream /\ Len(blobs) = 2 /\ Len(calls) = 3
  /\ blobs[1].type # blobs[2].type /\ blobs[2].data # <<>>
  /\ calls[2].Data = blobs[2].data /\ calls[3].err = "EOF"

\* C14: once rawBlockReader.ReadBlock has returned an error, every later
\* call returns that error with n = 0 and no blob, and leaves the reader
\* where it was: nothing more is read from the stream.
C14_Sticky ==
  /\ [](\A i, j \in 1..Len(calls) :
          (i < j /\ calls[i].err # "nil") =>
            calls[j] = [n |-> 0, Type |-> <<>>, Data |-> <<>>,
                        err |-> calls[i].err])
  /\ [](\A i \in 1..Len(calls) : calls[i].err # "nil" => rr.err = calls[i].err)
  /\ [][rr.err # "nil" => rr' = rr]_vars

\* a BlobHeader that does not parse stopped the reader with bytes of the
\* stream still unread, and a later call returned the same error
C14_Witness ==
  /\ Len(calls) >= 2 /\ rr.off < Len(stream)
  /\ calls[Len(calls) - 1].err = "bad wire type"
  /\ calls[Len(calls)].err = "bad wire type"

\* the offsets of the stream at which a blob of the list ends
Boundaries(bl) == {Len(EncStream(Take(bl, k))) : k \in 0..Len(bl)}

\* C15: when a stream of well-formed blobs ends strictly inside a frame,
\* the call that meets the end returns "unexpected EOF"; ReadBlock returns
\* EOF only when the stream ends on a frame boundary.
C15_PartialIsUnexpected ==
  (\A k \in 1..Len(blobs) : WellFormed(blobs[k])) =>
    \A i \in 1..Len(calls) :
      /\ Len(stream) \notin Boundaries(blobs)
           => calls[i].err \in {"nil", "unexpected EOF"}
      /\ Len(stream) \in Boundaries(blobs)
           => calls[i].err \in {"nil", "EOF"}

\* C17: for a Blob that carries its data in the raw field, with or without
\* raw_size, inflate returns the bytes of that field and no error, so that
\* procBlock is given the PrimitiveBlock the Blob was written from.
C17_RawPayload ==
  (inflated.err # "none"
     /\ bdata \in {RawBlob(pdata),
                   RawBlob(pdata) \o EncVarintField(2, Len(pdata))})
    => /\ inflated.err = "nil"
       /\ inflated.data = pdata
       /\ procBlock(Everything, inflated.data) = procBlock(Everything, pdata)

\* C18: for a Blob that carries only lzma_data or the bzip2 field, inflate
\* returns an error.
C18_Unsupported ==
  (inflated.err # "none" /\ bdata \in {LzmaBlob(pdata), Bzip2Blob(pdata)})
    => inflated.err # "nil"

RECURSIVE SumTo(_, _)
SumTo(xs, i) == IF i = 0 THEN 0 ELSE xs[i] + SumTo(xs, i - 1)

\* the ways (k = 1) or relations (k = 2) of the groups, in order
RECURSIVE ItemsOf(_, _)
ItemsOf(gs, k) ==
  IF Len(gs) = 0 THEN <<>>
  ELSE (IF gs[1].kind = k THEN gs[1].items ELSE <<>>) \o ItemsOf(Drop(gs, 1), k)

\* the number of nodes of the groups before group j
RECURSIVE NodesBefore(_, _)
NodesBefore(gs, j) ==
  IF j <= 1 THEN 0 ELSE NodesBefore(gs, j - 1) + Len(gs[j - 1].ids)

\* C20: the i-th id of a dense group, the i-th ref of a way and the i-th
\* member id of a relation is the sum of the first i deltas of that group,
\* way or relation, whatever was decoded before it; the deltas 5, 3, -2, 10
\* give 5, 8, 6, 16.
C20_DeltaDecoding ==
  /\ DeltaDecode(<<5, 3, -2, 10>>, 0) = <<5, 8, 6, 16>>
  /\ decoded.err # "none" =>
       /\ decoded.err = "nil"
       /\ whatArg \in {Everything, Nodes} =>
            \A j \in 1..Len(groups) : \A i \in 1..Len(groups[j].ids) :
              decoded.block.nodes[NodesBefore(groups, j) + i].id
                = SumTo(groups[j].ids, i)
       /\ whatArg \in {Everything, Ways} =>
            /\ Len(decoded.block.ways) = Len(ItemsOf(groups, 1))
            /\ \A k \in 1..Len(ItemsOf(groups, 1)) :
                 /\ decoded.block.ways[k].rend - decoded.block.ways[k].rset
                      = Len(ItemsOf(groups, 1)[k].refs)
                 /\ \A i \in 1..Len(ItemsOf(groups, 1)[k].refs) :
                      decoded.block.wayRefs[decoded.block.ways[k].rset + i]
                        = SumTo(ItemsOf(groups, 1)[k].refs, i)
       /\ whatArg \in {Everything, Relations} =>
            /\ Len(decoded.block.relations) = Len(ItemsOf(groups, 2))
            /\ \A k \in 1..Len(ItemsOf(groups, 2)) :
                 /\ decoded.block.relations[k].mend
                      - decoded.block.relations[k].mset
                      = Len(ItemsOf(groups, 2)[k].refs)
                 /\ \A i \in 1..Len(ItemsOf(groups, 2)[k].refs) :
                      decoded.block.relationMemberRefs[
                          decoded.block.relations[k].mset + i]
                        = SumTo(ItemsOf(groups, 2)[k].refs, i)

\* a dense group and two ways with the same deltas each: every sum started
\* at 0 again
C20_Witness ==
  /\ decoded.err = "nil" /\ whatArg = Everything /\ Len(groups) = 2
  /\ groups[1].kind = 0 /\ groups[1].ids = <<3, -2>>
  /\ groups[2].kind = 1 /\ Len(groups[2].items) = 2
  /\ groups[2].items[1].refs = <<3, -2>> /\ groups[2].items[2].refs = <<3, -2>>
  /\ decoded.block.nodes[2].id = 1
  /\ decoded.block.wayRefs = <<3, 1, 3, 1>>

\* the positions of the OSMData blobs in a list, from position i on
RECURSIVE DataPositions(_, _)
DataPositions(bl, i) ==
  IF i > Len(bl) THEN <<>>
  ELSE (IF bl[i].type = OSMData THEN <<i>> ELSE <<>>)
         \o DataPositions(bl, i + 1)

\* the offset of the stream at which the k-th blob ends
EndOf(bl, k) == Len(EncStream(Take(bl, k)))

\* C16: on a stream of well-formed blobs of which k are OSMData, the first k
\* calls of ReadBlock or SkipBlock, in any mix, succeed; the i-th returns as
\* n the bytes from the end of the OSMData blob before it to the end of the
\* i-th OSMData blob, and ReadBlock returns the block of that blob; every
\* later call fails with n = 0.
C16_SkipsNonData ==
  FullStream =>
    \A i \in 1..Len(calls) :
      /\ i <= Len(DataPositions(blobs, 1)) =>
           /\ calls[i].err = "nil"
           /\ calls[i].n =
                EndOf(blobs, DataPositions(blobs, 1)[i])
                  - (IF i = 1 THEN 0
                     ELSE EndOf(blobs, DataPositions(blobs, 1)[i - 1]))
           /\ calls[i].op = "ReadBlock" =>
                calls[i].block =
                  procBlock(Everything,
                    inflate(blobs[DataPositions(blobs, 1)[i]].data).data).block
      /\ i > Len(DataPositions(blobs, 1)) =>
           (calls[i].err = "EOF" /\ calls[i].n = 0)

\* a header and two OSMData blobs: SkipBlock passed the header and the first
\* block, ReadBlock returned the second, and the third call met the end
C16_Witness ==
  /\ FullStream /\ Len(blobs) = 3 /\ Len(calls) = 3
  /\ blobs[1].type = OSMHeader /\ blobs[2].type = OSMData
  /\ blobs[3].type = OSMData /\ blobs[3].data # <<>>
  /\ calls[1].op = "SkipBlock" /\ calls[1].n = EndOf(blobs, 2)
  /\ calls[2].op = "ReadBlock" /\ calls[2].err = "nil"
  /\ calls[2].block.stringsCount = 1
  /\ calls[3].err = "EOF"

\* the (key, value) pairs of an entity with the given keys and vals, a key
\* without a val having 0 as its value
PairsOf(keys, vals) ==
  [i \in 1..(2 * Len(keys)) |->
     IF i % 2 = 1 THEN keys[(i + 1) \div 2]
     ELSE IF i \div 2 <= Len(vals) THEN vals[i \div 2] ELSE 0]

\* C21: whatever the numbers of keys and of vals of the ways and relations
\* of a block, procBlock returns no error, and the string range of each way
\* and relation holds one (key, value) pair per key, in order, with 0 as
\* the value of a key that has no val.
C21_BestEffort ==
  decoded.err # "none" =>
    /\ decoded.err = "nil"
    /\ whatArg \in {Everything, Ways} =>
         /\ Len(decoded.block.ways) = Len(ItemsOf(groups, 1))
         /\ \A k \in 1..Len(ItemsOf(groups, 1)) :
              SubSeq(decoded.block.wayStrings,
                     decoded.block.ways[k].sset + 1,
                     decoded.block.ways[k].send)
                = PairsOf(ItemsOf(groups, 1)[k].keys,
                          ItemsOf(groups, 1)[k].vals)
    /\ whatArg \in {Everything, Relations} =>
         /\ Len(decoded.block.relations) = Len(ItemsOf(groups, 2))
         /\ \A k \in 1..Len(ItemsOf(groups, 2)) :
              SubSeq(decoded.block.relationStrings,
                     decoded.block.relations[k].sset + 1,
                     decoded.block.relations[k].send)
                = PairsOf(ItemsOf(groups, 2)[k].keys,
                          ItemsOf(groups, 2)[k].vals)

\* Block.StringAt
StringAt(block, index) == block.strings[index + 1]

\* Relation.NumMembers and Relation.MemberAt, r being the blockRelation
NumMembers(r) == r.mend - r.mset

MemberAt(block, r, index) ==
  [typ |-> SubSeq(block.relationMemberTypes, r.mset + 1, r.mend)[index + 1],
   ref |-> SubSeq(block.relationMemberRefs, r.mset + 1, r.mend)[index + 1],
   role |-> StringAt(block,
              SubSeq(block.relationMemberRoles, r.mset + 1,
                     r.mend)[index + 1])]

\* C22: after decoding the relations of a block, each written with as many
\* roles and types as member ids, the three member arrays of the block have
\* the same length, each relation has as many members as it was written
\* with, and MemberAt(i) returns the type, the sum of the first i+1 member
\* id deltas and the role string of member i of that relation.
C22_MembersAligned ==
  (decoded.err # "none" /\ whatArg \in {Everything, Relations}) =>
    /\ decoded.err = "nil"
    /\ Len(decoded.block.relationMemberRoles)
         = Len(decoded.block.relationMemberRefs)
    /\ Len(decoded.block.relationMemberTypes)
         = Len(decoded.block.relationMemberRefs)
    /\ Len(decoded.block.relations) = Len(ItemsOf(groups, 2))
    /\ \A k \in 1..Len(ItemsOf(groups, 2)) :
         /\ NumMembers(decoded.block.relations[k])
              = Len(ItemsOf(groups, 2)[k].refs)
         /\ \A i \in 1..Len(ItemsOf(groups, 2)[k].refs) :
              MemberAt(decoded.block, decoded.block.relations[k], i - 1)
                = [typ |-> i % 3,
                   ref |-> SumTo(ItemsOf(groups, 2)[k].refs, i),
                   role |-> IF i % 2 = 1 THEN <<97>> ELSE <<>>]

\* a relation without members, then two relations of two members in two
\* groups: the last one's members start at position 2 of the arrays
C22_Witness ==
  /\ decoded.err = "nil" /\ whatArg = Relations /\ Len(groups) = 2
  /\ Len(ItemsOf(groups, 2)) = 3 /\ Len(decoded.block.relations) = 3
  /\ NumMembers(decoded.block.relations[1]) = 0
  /\ decoded.block.relations[3].mset = 2
  /\ decoded.block.relationMemberRoles = <<1, 0, 1, 0>>
  /\ decoded.block.relationMemberTypes = <<1, 2, 1, 2>>
  /\ MemberAt(decoded.block, decoded.block.relations[3], 1)
       = [typ |-> 2, ref |-> 1, role |-> <<>>]

\* C23: for a block whose primitive groups each hold nodes, ways or
\* relations, decoded with what = Everything or what = DataKinds, dataKind
\* of the Block is the kind of the first group.
C23_FirstKind ==
  (decoded.err # "none" /\ whatArg \in {Everything, DataKinds}
     /\ \A j \in 1..Len(groups) :
          Len(groups[j].ids) + Len(groups[j].items) > 0)
    => /\ decoded.err = "nil"
       /\ decoded.block.dataKind = groups[1].kind

\* C24: when the OSMData blob of the stream holds a block with a malformed
\* dense-nodes, way or relation message, the call of ReadBlock that reads
\* that blob returns an error, not a Block.
C24_ErrorsPropagate ==
  (pdata \in MalformedBlocks /\ Len(calls) >= 1
     /\ calls[1].op = "ReadBlock")
    => calls[1].err # "nil"

\* C25: after decoding a block of any groups, node i of the j-th group has
\* sset <= send <= len(nodeStrings), and the range [sset, send) of the
\* block's nodeStrings is the i-th run of keys_vals of that group, the
\* indices Node.StringAt looks up.
C25_NodeTagRanges ==
  (decoded.err # "none" /\ whatArg \in {Everything, Nodes}) =>
    /\ decoded.err = "nil"
    /\ \A j \in 1..Len(groups) : \A i \in 1..Len(groups[j].ids) :
         /\ decoded.block.nodes[NodesBefore(groups, j) + i].sset
              <= decoded.block.nodes[NodesBefore(groups, j) + i].send
         /\ decoded.block.nodes[NodesBefore(groups, j) + i].send
              <= Len(decoded.block.nodeStrings)
         /\ SubSeq(decoded.block.nodeStrings,
                   decoded.block.nodes[NodesBefore(groups, j) + i].sset + 1,
                   decoded.block.nodes[NodesBefore(groups, j) + i].send)
              = groups[j].runs[i]

\* C26 as stated: once Stop has recorded its error, no step changes the
\* file or downloaded, and of the status only done changes.
C26_StopFreezes ==
  [][err = "stopped" =>
       /\ file' = file
       /\ downloaded' = downloaded
       /\ path' = path /\ size' = size /\ err' = err
       /\ done => done']_vars

\* C26, amended: once Stop has recorded its error no step writes to the
\* file and no chunk changes downloaded; a Stop that came before path, size
\* and the resume offset were published does not prevent that publication,
\* which sets downloaded to the length of the file, and after it only done
\* changes, from false to true.
C26_StopWritesNothing ==
  [][err = "stopped" =>
       /\ file' = file
       /\ err' = err
       /\ done => done'
       /\ path # "" =>
            (downloaded' = downloaded /\ path' = path /\ size' = size)
       /\ path = "" =>
            \/ (downloaded' = downloaded /\ path' = path /\ size' = size)
            \/ (downloaded' = Len(file) /\ path' = Path /\ size' = srvSize)]_vars

\* the producer had read a chunk when Stop recorded its error: the chunk
\* was dropped at the check and download returned the error
C26_Witness ==
  /\ err = "stopped" /\ ppc = "returned" /\ dlret = "stopped"
  /\ pn > 0 /\ written = Len(file) + pn /\ downloaded = Len(file)
  /\ written <= srvSize

\* C27: whenever a run of Download, after any number of earlier runs on the
\* same path against a server that answers with 206 and the range or with
\* 200 and the whole content, ends with done and no error, the file holds
\* exactly the size bytes of the content, in order.
C27_ContentIntact ==
  (done /\ err = "nil") =>
    /\ Len(file) = srvSize
    /\ \A i \in 1..srvSize : file[i] = Content(i - 1)

\* C28: every error-only reader that Reader() hands out carries an error,
\* also the one made when the path is published and opening the file
\* fails, and each of its Read calls returns (0, err) with an error, never
\* (0, nil).
C28_ErrReaderHasError ==
  \A r \in Readers :
    kind[r] = "err" =>
      /\ rderr[r] # "nil"
      /\ ret[r] # NoRet => (ret[r].n = 0 /\ ret[r].err # "nil")

====
